---- MODULE Spec2Model ----
(***************************************************************************)
(* Model of the chest-anchored heart animation pipeline:                   *)
(*   HeartRateParser      (src/src/heartrate/hr_parser.py)                 *)
(*   AnimationController  (src/src/heartrate/animation_controller.py)      *)
(*   ChestTracker         (src/src/pose/chest_tracker.py)                  *)
(*   math_utils           (src/src/utils/math_utils.py)                    *)
(*                                                                         *)
(* Units.  Time is an integer number of ticks of 10 ms (time.time() is the *)
(* variable now).  Scales and sines are fixed point with 1000 = 1.0.       *)
(* Optional values (Python None) are sequences: <<>> is None, <<v>> is v.  *)
(***************************************************************************)
EXTENDS Integers, Sequences, FiniteSets, TLC

VARIABLES
    now,                  \* the clock read by time.time(), in ticks
    op,                   \* name of the operation performed last
    \* ---- HeartRateParser
    recent_values,        \* deque(maxlen = smoothing_window)
    hr_current_bpm,       \* HeartRateParser.current_bpm : Optional[int]
    last_update_time,     \* HeartRateParser.last_update_time : Optional
    hr_ret,               \* value returned by the last update / get_bpm
    stale_ret,            \* value returned by the last is_stale
    stale_arg,            \* timeout passed to the last is_stale
    history,              \* log: inputs of update since construction/reset
    updated_at,           \* log: clock value at the last update call
    dropped,              \* log: 1 if the last reset discarded samples
    \* ---- AnimationController
    start_time,           \* AnimationController.start_time
    ac_current_bpm,       \* AnimationController.current_bpm (1/100 bpm)
    target_bpm,           \* AnimationController.target_bpm : Optional[int]
    beat_scale,           \* AnimationController.beat_scale (1000 = 1.0)
    last_heartbeat_time,  \* AnimationController.last_heartbeat_time
    heartbeat_pulse_start,\* AnimationController.heartbeat_pulse_start
    scale_ret,            \* value returned by the last get_beat_scale
    q_mode,               \* log: branch that answered the last query
    q_time,               \* log: current_time of the last query
    queries,              \* log: get_beat_scale calls made so far
    prev_ret,             \* log: value returned by the query before the
                          \*      last one, when no operation came between
    \* ---- ChestTracker
    last_position,        \* ChestTracker.last_position : Optional (mm)
    last_rotation,        \* ChestTracker.last_rotation : Optional (3x3)
    last_position_2d,     \* ChestTracker.last_position_2d (1/1000 pixel)
    ret_position,         \* position returned by the last track_chest
    ret_rotation,         \* rotation returned by the last track_chest
    ret_2d,               \* value returned by the last get_chest_position_2d
    ret_matrix,           \* value returned by the last get_transform_matrix*
    in_frame,             \* log: landmarks passed to the last tracker call
    in_size,              \* log: <<frame_width, frame_height>> of that call
    frames,               \* log: tracker calls made so far
    cleared,              \* log: 1 from a reset that discarded stored state
                          \*      until the tracker call after it
    \* ---- trigger_heartbeat and get_beat_scale on two threads
    t_pc,                 \* position of the thread in trigger_heartbeat
    g_pc,                 \* position of the thread in get_beat_scale
    g_time,               \* current_time of the running get_beat_scale
    g_elapsed,            \* its local pulse_elapsed
    g_seen,               \* log: heartbeat_pulse_start as its test read it
    g_first,              \* log: the completed trigger it is the first
                          \*      query after, if any
    trig_pending,         \* log: completed trigger no query started after
    triggers,             \* log: trigger_heartbeat calls made
    \* ---- MainWindow
    shown_scale,          \* beat scale handed to the overlay by update_frame
    in_heart_rate,        \* log: argument of the last beat notification
    calls                 \* log: calls made by the last MainWindow handler

hrVars == <<recent_values, hr_current_bpm, last_update_time>>
hrLog  == <<hr_ret, stale_ret, stale_arg, history, updated_at, dropped>>
acVars == <<start_time, ac_current_bpm, target_bpm, beat_scale,
            last_heartbeat_time, heartbeat_pulse_start>>
acLog  == <<scale_ret, q_mode, q_time, queries, prev_ret>>
ctVars == <<last_position, last_rotation, last_position_2d>>
ctLog  == <<ret_position, ret_rotation, ret_2d, ret_matrix, in_frame,
            in_size, frames, cleared>>
thVars == <<t_pc, g_pc, g_time, g_elapsed, g_seen, g_first, trig_pending,
            triggers>>
mwVars == <<shown_scale, in_heart_rate, calls>>
vars   == <<now, op, hrVars, hrLog, acVars, acLog, ctVars, ctLog, thVars,
            mwVars>>

None    == <<>>
Some(v) == <<v>>
Val(o)  == o[1]

(***************************************************************************)
(* Bounds of the model                                                      *)
(***************************************************************************)
MaxUpdates == 6     \* update calls per parser lifetime (> smoothing_window)
MaxSeconds == 7     \* the clock stops advancing after this many seconds
MaxAnimSteps == 11  \* clock steps of 30 ms in an animation run
MaxQueries == 3     \* get_beat_scale calls per animation run
MaxFrames == 3      \* tracker calls per tracker run
MaxTriggers == 2    \* trigger_heartbeat calls per two-thread run
MaxBeats == 3       \* accepted beat notifications per main-window run

TicksPerSecond == 10 * 10
MaxTime == MaxSeconds * TicksPerSecond
MaxAnimTime == 3 * MaxAnimSteps

BpmInputs == {30, 61, 220}               \* heart_rate arguments of update
ParserClockSteps == {250, 260}            \* clock advances between calls
StaleTimeouts == {0, 250, 500}            \* timeout arguments of is_stale
AnimClockSteps == {3, 30}                 \* clock advances between calls
ClockDrift == {0, 3}                      \* clock advance inside one call
TargetInputs == {None, Some(0), Some(200)}            \* update_bpm arguments
\* get_beat_scale(current_time): the caller's current_time is the clock
\* reading or an instant this many ticks before it
QueryLags == {0, 3}
ThreadClockSteps == {15}     \* clock advances between steps of two threads
MwBeatInputs == {29, 30, 220, 221}        \* values of a beat notification
MainClockSteps == {250, 260}              \* clock advances between handlers

(***************************************************************************)
(* Arithmetic helpers                                                      *)
(***************************************************************************)
Abs(x) == IF x < 0 THEN -x ELSE x

\* int(a / b) for b > 0: Python's int() truncates toward zero
IntDiv(a, b) == IF a >= 0 THEN a \div b ELSE -((-a) \div b)

RECURSIVE SeqSum(_)
SeqSum(s) == IF s = <<>> THEN 0 ELSE Head(s) + SeqSum(Tail(s))

\* the last n elements of s
LastN(s, n) == SubSeq(s, Len(s) - n + 1, Len(s))

Min(a, b) == IF a <= b THEN a ELSE b

(***************************************************************************)
(* HeartRateParser                                                         *)
(***************************************************************************)
smoothing_window == 5

\* deque(maxlen = m).append(x): drops the oldest element when full
DequeAppend_NoEvict(q, x, m) == Append(q, x)
DequeAppend(q, x, m) ==
    IF Len(q) >= m THEN Append(Tail(q), x) ELSE Append(q, x)

\* int(sum(recent_values) / len(recent_values)), heart_rate when empty
SmoothedBpm_Round(q, heart_rate) ==
    IF Len(q) > 0 THEN (2 * SeqSum(q) + Len(q)) \div (2 * Len(q))
    ELSE heart_rate
SmoothedBpm(q, heart_rate) ==
    IF Len(q) > 0 THEN IntDiv(SeqSum(q), Len(q)) ELSE heart_rate

\* HeartRateParser.is_stale(timeout), evaluated at clock value t
is_stale_AtLeast(lut, t, timeout) ==
    IF lut = None THEN TRUE ELSE (t - Val(lut)) >= timeout
is_stale(lut, t, timeout) ==
    IF lut = None THEN TRUE ELSE (t - Val(lut)) > timeout

\* HeartRateParser.get_beat_interval() in ticks (60.0 / current_bpm seconds)
get_beat_interval(bpm) ==
    IF bpm = None \/ Val(bpm) <= 0 THEN None
    ELSE Some((60 * TicksPerSecond) \div Val(bpm))

HrInit ==
    /\ recent_values = <<>>
    /\ hr_current_bpm = None
    /\ last_update_time = None
    /\ hr_ret = None
    /\ stale_ret = FALSE
    /\ stale_arg = 0
    /\ history = <<>>
    /\ updated_at = 0
    /\ dropped = 0

HrUpdate(heart_rate) ==
    /\ Len(history) < MaxUpdates
    /\ recent_values' = DequeAppend(recent_values, heart_rate, smoothing_window)
    /\ last_update_time' = Some(now)
    /\ hr_current_bpm' = Some(SmoothedBpm(recent_values', heart_rate))
    /\ hr_ret' = hr_current_bpm'
    /\ history' = Append(history, heart_rate)
    /\ updated_at' = now
    /\ op' = "update"
    /\ stale_ret' = FALSE
    /\ stale_arg' = 0
    /\ UNCHANGED <<now, acVars, acLog, ctVars, ctLog, thVars, mwVars>>
    /\ UNCHANGED dropped

HrGetBpm ==
    /\ hr_ret' = hr_current_bpm
    /\ op' = "get_bpm"
    /\ stale_ret' = FALSE
    /\ stale_arg' = 0
    /\ UNCHANGED <<now, hrVars, history, updated_at>>
    /\ UNCHANGED <<acVars, acLog, ctVars, ctLog, thVars, mwVars>>
    /\ UNCHANGED dropped

HrGetBeatInterval ==
    /\ hr_ret' = get_beat_interval(hr_current_bpm)
    /\ op' = "get_beat_interval"
    /\ stale_ret' = FALSE
    /\ stale_arg' = 0
    /\ UNCHANGED <<now, hrVars, history, updated_at, dropped>>
    /\ UNCHANGED <<acVars, acLog, ctVars, ctLog, thVars, mwVars>>

HrIsStale(timeout) ==
    /\ stale_ret' = is_stale(last_update_time, now, timeout)
    /\ stale_arg' = timeout
    /\ op' = "is_stale"
    /\ hr_ret' = None
    /\ UNCHANGED <<now, hrVars, history, updated_at>>
    /\ UNCHANGED <<acVars, acLog, ctVars, ctLog, thVars, mwVars>>
    /\ UNCHANGED dropped

\* reset(): recent_values.clear(); current_bpm = None; last_update_time = None
HrReset_KeepWindow ==
    /\ recent_values' = recent_values
    /\ hr_current_bpm' = None
    /\ last_update_time' = None
    /\ hr_ret' = None
    /\ history' = <<>>
    /\ updated_at' = 0
    /\ op' = "reset"
    /\ stale_ret' = FALSE
    /\ stale_arg' = 0
    /\ UNCHANGED <<now, acVars, acLog, ctVars, ctLog, thVars, mwVars>>
    /\ dropped' = Min(Len(history), 1)

HrReset ==
    /\ recent_values' = <<>>
    /\ hr_current_bpm' = None
    /\ last_update_time' = None
    /\ hr_ret' = None
    /\ history' = <<>>
    /\ updated_at' = 0
    /\ op' = "reset"
    /\ stale_ret' = FALSE
    /\ stale_arg' = 0
    /\ UNCHANGED <<now, acVars, acLog, ctVars, ctLog, thVars, mwVars>>
    /\ dropped' = Min(Len(history), 1)

\* the clock moves forward between calls
ParserTick(d) ==
    /\ now + d <= MaxTime
    /\ now' = now + d
    /\ op' = "tick"
    /\ hr_ret' = None
    /\ stale_ret' = FALSE
    /\ stale_arg' = 0
    /\ UNCHANGED <<hrVars, history, updated_at>>
    /\ UNCHANGED <<acVars, acLog, ctVars, ctLog, thVars, mwVars>>
    /\ UNCHANGED dropped

(***************************************************************************)
(* Trigonometry in fixed point.  math.sin is approximated on [0, pi] by    *)
(* Bhaskara's rational formula                                             *)
(*     sin(pi*n/d) ~ 16 n (d-n) / (5 d^2 - 4 n (d-n))                      *)
(* which is exact at 0, pi/6, pi/2, 5pi/6 and pi (error below 0.002), and  *)
(* extended by sin(x + pi) = -sin(x).  Results are scaled by 1000.         *)
(***************************************************************************)
RECURSIVE Gcd(_, _)
Gcd(a, b) == IF b = 0 THEN a ELSE Gcd(b, a % b)

\* 1000 * sin(pi * n / d) for 0 <= n <= d
SinHalfTurn(n, d) ==
    LET g == Gcd(d, n)
        m == n \div g
        e == d \div g
    IN  (16000 * m * (e - m)) \div (5 * e * e - 4 * m * (e - m))

\* 1000 * sin(pi * n / d) for any integer n, d > 0
SinPi(n, d) ==
    LET m == n % (2 * d)
    IN  IF m <= d THEN SinHalfTurn(m, d) ELSE -SinHalfTurn(m - d, d)

\* 1000 * cos(pi * n / d) = 1000 * sin(pi * (d + 2n) / (2d))
CosPi(n, d) == SinPi(d + 2 * n, 2 * d)

(***************************************************************************)
(* AnimationController                                                     *)
(***************************************************************************)
pulse_duration == 30                 \* 0.3 s
HEART_BEAT_SCALE_AMPLITUDE == 300    \* 0.3
ANIMATION_SMOOTHING == 100           \* 0.1

BpmUnit == 10 * 10                   \* current_bpm is kept in 1/100 bpm
PhaseSteps == 2 * 360                \* the phase is resolved to half degrees

\* value * factor, both in fixed point with 1000 = 1.0
Scaled(value, factor) == IntDiv(value * factor, 1000)

\* the event curve: pulse for a given pulse_elapsed < pulse_duration
\*   progress = pulse_elapsed / pulse_duration
\*   progress < 0.3 : sin(progress * pi / 0.3) * AMPLITUDE
\*   else           : cos((progress - 0.3) / 0.7 * pi / 2) * AMPLITUDE
RisePulse(pulse_elapsed) ==
    Scaled(SinPi(10 * pulse_elapsed, 3 * pulse_duration),
           HEART_BEAT_SCALE_AMPLITUDE)
DecayPulse_HalfTurn(pulse_elapsed) ==
    Scaled(CosPi(10 * pulse_elapsed - 3 * pulse_duration, 7 * pulse_duration),
           HEART_BEAT_SCALE_AMPLITUDE)
DecayPulse(pulse_elapsed) ==
    Scaled(CosPi(10 * pulse_elapsed - 3 * pulse_duration, 14 * pulse_duration),
           HEART_BEAT_SCALE_AMPLITUDE)
InRisePhase(pulse_elapsed) == 10 * pulse_elapsed < 3 * pulse_duration
EventPulse(pulse_elapsed) ==
    IF InRisePhase(pulse_elapsed) THEN RisePulse(pulse_elapsed)
    ELSE DecayPulse(pulse_elapsed)

\* "if self.heartbeat_pulse_start is not None" and
\* "if pulse_elapsed < self.pulse_duration"
PulseActive_Inclusive(hps, current_time) ==
    hps # None /\ (current_time - Val(hps)) <= pulse_duration
PulseActive(hps, current_time) ==
    hps # None /\ (current_time - Val(hps)) < pulse_duration

\* "Pulse finished, reset": the new value of heartbeat_pulse_start
FinishedPulseStart_Keep(hps) == hps
FinishedPulseStart(hps) == None

\* the BPM smoothing step of the fallback branch
SmoothBpm_Jump(cur, tgt) ==
    IF tgt # None THEN Some(Val(tgt) * BpmUnit) ELSE cur
SmoothBpm_Decay(cur, tgt) ==
    IF tgt # None
    THEN IF cur = None THEN Some(Val(tgt) * BpmUnit)
         ELSE Some(Val(cur) + Scaled(Val(tgt) * BpmUnit - Val(cur),
                                     ANIMATION_SMOOTHING))
    ELSE IF cur = None THEN None
         ELSE Some(Val(cur) + Scaled(0 - Val(cur), ANIMATION_SMOOTHING))
SmoothBpm(cur, tgt) ==
    IF tgt # None
    THEN IF cur = None THEN Some(Val(tgt) * BpmUnit)
         ELSE Some(Val(cur) + Scaled(Val(tgt) * BpmUnit - Val(cur),
                                     ANIMATION_SMOOTHING))
    ELSE cur

\* phase / (2 pi) in 1/PhaseSteps, for elapsed ticks at bpm (1/100 bpm):
\*   beat_interval = 60.0 / bpm;  (elapsed % beat_interval) / beat_interval
BeatPhase(elapsed, bpm) ==
    LET turn == 60 * TicksPerSecond * BpmUnit
    IN  (((elapsed * bpm) % turn) * PhaseSteps) \div turn

\* the periodic curve: sin(phase) * A for phase < pi, else sin(phase) * A * 0.5
PeriodicPulse(elapsed, bpm) ==
    LET ph == BeatPhase(elapsed, bpm)
    IN  IF 2 * ph < PhaseSteps
        THEN Scaled(SinPi(2 * ph, PhaseSteps), HEART_BEAT_SCALE_AMPLITUDE)
        ELSE Scaled(Scaled(SinPi(2 * ph, PhaseSteps),
                           HEART_BEAT_SCALE_AMPLITUDE), 500)

\* current_bpm after a query answered by the event branch: the branch
\* returns (line 73) before the smoothing at lines 80-86 is reached
EventBranchBpm_Smooth(cur, tgt) == SmoothBpm(cur, tgt)
EventBranchBpm(cur, tgt) == cur

\* the value the fallback branch returns
FallbackScale_Neutral(cur, elapsed) == 1000
FallbackScale(cur, elapsed) ==
    IF cur = None \/ Val(cur) <= 0 THEN 1000
    ELSE 1000 + PeriodicPulse(elapsed, Val(cur))

AcInit ==
    /\ start_time = now
    /\ ac_current_bpm = None
    /\ target_bpm = None
    /\ beat_scale = 1000
    /\ last_heartbeat_time = None
    /\ heartbeat_pulse_start = None
    /\ scale_ret = None
    /\ q_mode = "none"
    /\ q_time = 0
    /\ queries = 0
    /\ prev_ret = None

AcUpdateBpm(bpm) ==
    /\ target_bpm' = bpm
    /\ op' = "update_bpm"
    /\ scale_ret' = None
    /\ q_mode' = "none"
    /\ q_time' = 0
    /\ prev_ret' = None
    /\ UNCHANGED <<now, start_time, ac_current_bpm, beat_scale,
                   last_heartbeat_time, heartbeat_pulse_start, queries>>
    /\ UNCHANGED <<hrVars, hrLog, ctVars, ctLog, thVars, mwVars>>

\* the two statements of trigger_heartbeat read the clock one after the
\* other; the clock may advance by d between them
AcTriggerHeartbeat(d) ==
    /\ now + d <= MaxAnimTime
    /\ last_heartbeat_time' = Some(now)
    /\ now' = now + d
    /\ heartbeat_pulse_start' = Some(now')
    /\ op' = "trigger_heartbeat"
    /\ scale_ret' = None
    /\ q_mode' = "none"
    /\ q_time' = 0
    /\ prev_ret' = None
    /\ UNCHANGED <<start_time, ac_current_bpm, target_bpm, beat_scale, queries>>
    /\ UNCHANGED <<hrVars, hrLog, ctVars, ctLog, thVars, mwVars>>

AcGetBeatScale(current_time) ==
    /\ queries < MaxQueries
    /\ queries' = queries + 1
    /\ q_time' = current_time
    /\ prev_ret' = IF op = "get_beat_scale" THEN scale_ret ELSE None
    /\ op' = "get_beat_scale"
    /\ IF PulseActive(heartbeat_pulse_start, current_time)
       THEN /\ beat_scale' =
                 1000 + EventPulse(current_time - Val(heartbeat_pulse_start))
            /\ scale_ret' = Some(beat_scale')
            /\ q_mode' = "event"
            /\ ac_current_bpm' = EventBranchBpm(ac_current_bpm, target_bpm)
            /\ UNCHANGED heartbeat_pulse_start
       ELSE /\ heartbeat_pulse_start' =
                 IF heartbeat_pulse_start # None
                 THEN FinishedPulseStart(heartbeat_pulse_start)
                 ELSE heartbeat_pulse_start
            /\ ac_current_bpm' = SmoothBpm(ac_current_bpm, target_bpm)
            /\ beat_scale' =
                 FallbackScale(ac_current_bpm', current_time - start_time)
            /\ scale_ret' = Some(beat_scale')
            /\ q_mode' = IF ac_current_bpm' = None \/ Val(ac_current_bpm') <= 0
                         THEN "neutral" ELSE "periodic"
    /\ UNCHANGED <<now, start_time, target_bpm, last_heartbeat_time>>
    /\ UNCHANGED <<hrVars, hrLog, ctVars, ctLog, thVars, mwVars>>

AcReset_KeepBpm ==
    /\ start_time' = now
    /\ ac_current_bpm' = ac_current_bpm
    /\ target_bpm' = None
    /\ beat_scale' = 1000
    /\ last_heartbeat_time' = None
    /\ heartbeat_pulse_start' = None
    /\ op' = "reset"
    /\ scale_ret' = None
    /\ q_mode' = "none"
    /\ q_time' = 0
    /\ prev_ret' = None
    /\ UNCHANGED <<now, queries>>
    /\ UNCHANGED <<hrVars, hrLog, ctVars, ctLog, thVars, mwVars>>

AcReset ==
    /\ start_time' = now
    /\ ac_current_bpm' = None
    /\ target_bpm' = None
    /\ beat_scale' = 1000
    /\ last_heartbeat_time' = None
    /\ heartbeat_pulse_start' = None
    /\ op' = "reset"
    /\ scale_ret' = None
    /\ q_mode' = "none"
    /\ q_time' = 0
    /\ prev_ret' = None
    /\ UNCHANGED <<now, queries>>
    /\ UNCHANGED <<hrVars, hrLog, ctVars, ctLog, thVars, mwVars>>

AnimTick(d) ==
    /\ now + d <= MaxAnimTime
    /\ now' = now + d
    /\ op' = "tick"
    /\ scale_ret' = None
    /\ q_mode' = "none"
    /\ q_time' = 0
    /\ prev_ret' = None
    /\ UNCHANGED <<acVars, queries>>
    /\ UNCHANGED <<hrVars, hrLog, ctVars, ctLog, thVars, mwVars>>

(***************************************************************************)
(* trigger_heartbeat (called from the beat notification) and               *)
(* get_beat_scale (called from the video tick) running on two threads.     *)
(* Each action is one read or write of a field of the controller; the      *)
(* fallback branch touches only fields the trigger does not, and is one    *)
(* step.                                                                   *)
(***************************************************************************)
ThInit ==
    /\ t_pc = "idle"
    /\ g_pc = "idle"
    /\ g_time = 0
    /\ g_elapsed = 0
    /\ g_seen = None
    /\ g_first = None
    /\ trig_pending = None
    /\ triggers = 0

ThreadFrame == UNCHANGED <<hrVars, hrLog, ctVars, ctLog, mwVars>>
NoReturn ==
    /\ scale_ret' = None
    /\ q_mode' = "none"
    /\ q_time' = 0
    /\ prev_ret' = None

\* "self.last_heartbeat_time = time.time()"
TrigWriteLast ==
    /\ t_pc = "idle"
    /\ triggers < MaxTriggers
    /\ triggers' = triggers + 1
    /\ last_heartbeat_time' = Some(now)
    /\ t_pc' = "pulse_start"
    /\ op' = "trigger_write_last"
    /\ NoReturn
    /\ UNCHANGED <<now, start_time, ac_current_bpm, target_bpm, beat_scale,
                   heartbeat_pulse_start, queries>>
    /\ UNCHANGED <<g_pc, g_time, g_elapsed, g_seen, g_first, trig_pending>>
    /\ ThreadFrame

\* "self.heartbeat_pulse_start = time.time()": the call is complete
TrigWritePulseStart ==
    /\ t_pc = "pulse_start"
    /\ heartbeat_pulse_start' = Some(now)
    /\ trig_pending' = Some(now)
    /\ t_pc' = "idle"
    /\ op' = "trigger_write_pulse_start"
    /\ NoReturn
    /\ UNCHANGED <<now, start_time, ac_current_bpm, target_bpm, beat_scale,
                   last_heartbeat_time, queries, triggers>>
    /\ UNCHANGED <<g_pc, g_time, g_elapsed, g_seen, g_first>>
    /\ ThreadFrame

\* entry of get_beat_scale: "current_time = time.time()"
QueryStart ==
    /\ g_pc = "idle"
    /\ queries < MaxQueries
    /\ g_time' = now
    /\ g_first' = trig_pending
    /\ trig_pending' = None
    /\ g_seen' = None
    /\ g_elapsed' = 0
    /\ g_pc' = "test"
    /\ op' = "query_start"
    /\ NoReturn
    /\ UNCHANGED <<now, acVars, queries, t_pc, triggers>>
    /\ ThreadFrame

\* "if self.heartbeat_pulse_start is not None"
QueryTest ==
    /\ g_pc = "test"
    /\ g_seen' = heartbeat_pulse_start
    /\ g_pc' = IF heartbeat_pulse_start # None THEN "elapsed" ELSE "fallback"
    /\ op' = "query_test"
    /\ NoReturn
    /\ UNCHANGED <<now, acVars, queries, t_pc, triggers, g_time, g_elapsed,
                   g_first, trig_pending>>
    /\ ThreadFrame

\* "pulse_elapsed = current_time - self.heartbeat_pulse_start" and
\* "if pulse_elapsed < self.pulse_duration"; no thread writes None between
\* the test and this read
QueryElapsedRead ==
    /\ g_pc = "elapsed"
    /\ heartbeat_pulse_start # None
    /\ g_elapsed' = g_time - Val(heartbeat_pulse_start)
    /\ g_pc' = IF g_elapsed' < pulse_duration THEN "pulse" ELSE "clear"
    /\ op' = "query_elapsed"
    /\ NoReturn
    /\ UNCHANGED <<now, acVars, queries, t_pc, triggers, g_time, g_seen,
                   g_first, trig_pending>>
    /\ ThreadFrame

\* "self.beat_scale = 1.0 + pulse; return self.beat_scale"
QueryPulse ==
    /\ g_pc = "pulse"
    /\ beat_scale' = 1000 + EventPulse(g_elapsed)
    /\ scale_ret' = Some(beat_scale')
    /\ q_mode' = "event"
    /\ q_time' = g_time
    /\ prev_ret' = None
    /\ queries' = queries + 1
    /\ g_pc' = "idle"
    /\ op' = "query_return"
    /\ UNCHANGED <<now, start_time, ac_current_bpm, target_bpm,
                   last_heartbeat_time, heartbeat_pulse_start>>
    /\ UNCHANGED <<t_pc, triggers, g_time, g_elapsed, g_seen, g_first,
                   trig_pending>>
    /\ ThreadFrame

\* "self.heartbeat_pulse_start = None"
QueryClear ==
    /\ g_pc = "clear"
    /\ heartbeat_pulse_start' = FinishedPulseStart(heartbeat_pulse_start)
    /\ g_pc' = "fallback"
    /\ op' = "query_clear"
    /\ NoReturn
    /\ UNCHANGED <<now, start_time, ac_current_bpm, target_bpm, beat_scale,
                   last_heartbeat_time, queries>>
    /\ UNCHANGED <<t_pc, triggers, g_time, g_elapsed, g_seen, g_first,
                   trig_pending>>
    /\ ThreadFrame

\* the BPM-based fallback, to its return
QueryFallback ==
    /\ g_pc = "fallback"
    /\ ac_current_bpm' = SmoothBpm(ac_current_bpm, target_bpm)
    /\ beat_scale' = FallbackScale(ac_current_bpm', g_time - start_time)
    /\ scale_ret' = Some(beat_scale')
    /\ q_mode' = IF ac_current_bpm' = None \/ Val(ac_current_bpm') <= 0
                 THEN "neutral" ELSE "periodic"
    /\ q_time' = g_time
    /\ prev_ret' = None
    /\ queries' = queries + 1
    /\ g_pc' = "idle"
    /\ op' = "query_return"
    /\ UNCHANGED <<now, start_time, target_bpm, last_heartbeat_time,
                   heartbeat_pulse_start>>
    /\ UNCHANGED <<t_pc, triggers, g_time, g_elapsed, g_seen, g_first,
                   trig_pending>>
    /\ ThreadFrame

\* the clock advances between any two steps of either thread
ThreadTick(d) ==
    /\ now + d <= MaxAnimTime
    /\ now' = now + d
    /\ op' = "tick"
    /\ NoReturn
    /\ UNCHANGED <<acVars, queries, thVars, mwVars>>
    /\ ThreadFrame

\* update_bpm, called by the beat notification before trigger_heartbeat
ThreadUpdateBpm(bpm) ==
    /\ t_pc = "idle"
    /\ target_bpm # bpm
    /\ target_bpm' = bpm
    /\ op' = "update_bpm"
    /\ NoReturn
    /\ UNCHANGED <<now, start_time, ac_current_bpm, beat_scale,
                   last_heartbeat_time, heartbeat_pulse_start, queries,
                   thVars, mwVars>>
    /\ ThreadFrame

(***************************************************************************)
(* MainWindow: the beat notification handler, the animation step of the    *)
(* video tick and the disconnect handler (src/src/ui/main_window.py).      *)
(* Qt delivers all three on the GUI thread, one at a time.                 *)
(***************************************************************************)
MwInit ==
    /\ shown_scale = None
    /\ in_heart_rate = 0
    /\ calls = <<>>

MwLogsCleared ==
    /\ hr_ret' = None
    /\ stale_ret' = FALSE
    /\ stale_arg' = 0
    /\ scale_ret' = None
    /\ q_mode' = "none"
    /\ q_time' = 0
    /\ prev_ret' = None

\* "if heart_rate < 30 or heart_rate > 220: return"
HeartRateRejected_Strict(heart_rate) == heart_rate <= 30 \/ heart_rate >= 220
HeartRateRejected(heart_rate) == heart_rate < 30 \/ heart_rate > 220

\* on_heart_rate_received(heart_rate); the clock advances by d between the
\* two clock reads of trigger_heartbeat
MwOnHeartRateReceived(heart_rate, d) ==
    /\ op' = "on_heart_rate_received"
    /\ in_heart_rate' = heart_rate
    /\ IF HeartRateRejected(heart_rate)
       THEN /\ calls' = <<>>
            /\ MwLogsCleared
            /\ UNCHANGED <<now, hrVars, history, updated_at, acVars, queries,
                           triggers>>
       ELSE /\ triggers < MaxBeats
            /\ triggers' = triggers + 1
            /\ now + d <= MaxTime
            \* bpm = self.hr_parser.update(heart_rate)
            /\ recent_values' =
                  DequeAppend(recent_values, heart_rate, smoothing_window)
            /\ last_update_time' = Some(now)
            /\ hr_current_bpm' = Some(SmoothedBpm(recent_values', heart_rate))
            /\ hr_ret' = hr_current_bpm'
            /\ history' = Append(history, heart_rate)
            /\ updated_at' = now
            \* self.animation_controller.update_bpm(bpm)
            /\ target_bpm' = hr_ret'
            \* self.animation_controller.trigger_heartbeat()
            /\ last_heartbeat_time' = Some(now)
            /\ now' = now + d
            /\ heartbeat_pulse_start' = Some(now')
            /\ calls' = <<"update", "update_bpm", "trigger_heartbeat">>
            /\ stale_ret' = FALSE
            /\ stale_arg' = 0
            /\ scale_ret' = None
            /\ q_mode' = "none"
            /\ q_time' = 0
            /\ prev_ret' = None
            /\ UNCHANGED <<start_time, ac_current_bpm, beat_scale, queries>>
    /\ UNCHANGED <<t_pc, g_pc, g_time, g_elapsed, g_seen, g_first,
                   trig_pending>>
    /\ UNCHANGED <<shown_scale, ctVars, ctLog>>
    /\ UNCHANGED dropped

\* the animation step of update_frame:
\*   if not self.hr_parser.is_stale(): beat_scale = get_beat_scale()
\*   else: the overlay gets 1.0
MwUpdateFrame ==
    /\ op' = "update_frame"
    /\ hr_ret' = None
    /\ stale_ret' = is_stale(last_update_time, now, 5 * TicksPerSecond)
    /\ stale_arg' = 5 * TicksPerSecond
    /\ IF ~stale_ret'
       THEN /\ queries < MaxQueries
            /\ queries' = queries + 1
            /\ q_time' = now
            /\ prev_ret' = None
            /\ IF PulseActive(heartbeat_pulse_start, now)
               THEN /\ beat_scale' =
                         1000 + EventPulse(now - Val(heartbeat_pulse_start))
                    /\ q_mode' = "event"
                    /\ ac_current_bpm' =
                         EventBranchBpm(ac_current_bpm, target_bpm)
                    /\ UNCHANGED heartbeat_pulse_start
               ELSE /\ heartbeat_pulse_start' =
                         IF heartbeat_pulse_start # None
                         THEN FinishedPulseStart(heartbeat_pulse_start)
                         ELSE heartbeat_pulse_start
                    /\ ac_current_bpm' = SmoothBpm(ac_current_bpm, target_bpm)
                    /\ beat_scale' =
                         FallbackScale(ac_current_bpm', now - start_time)
                    /\ q_mode' =
                         IF ac_current_bpm' = None \/ Val(ac_current_bpm') <= 0
                         THEN "neutral" ELSE "periodic"
            /\ scale_ret' = Some(beat_scale')
            /\ shown_scale' = Some(beat_scale')
            /\ calls' = <<"is_stale", "get_beat_scale">>
            /\ UNCHANGED <<start_time, target_bpm, last_heartbeat_time>>
       ELSE /\ shown_scale' = Some(1000)
            /\ calls' = <<"is_stale">>
            /\ scale_ret' = None
            /\ q_mode' = "none"
            /\ q_time' = 0
            /\ prev_ret' = None
            /\ UNCHANGED <<acVars, queries>>
    /\ in_heart_rate' = 0
    /\ UNCHANGED <<now, hrVars, history, updated_at, ctVars, ctLog, thVars>>
    /\ UNCHANGED dropped

\* disconnect_heart_rate: hr_parser.reset(); animation_controller.reset()
MwDisconnect ==
    /\ op' = "disconnect_heart_rate"
    /\ hr_current_bpm # None
    /\ recent_values' = <<>>
    /\ hr_current_bpm' = None
    /\ last_update_time' = None
    /\ history' = <<>>
    /\ updated_at' = 0
    /\ start_time' = now
    /\ ac_current_bpm' = None
    /\ target_bpm' = None
    /\ beat_scale' = 1000
    /\ last_heartbeat_time' = None
    /\ heartbeat_pulse_start' = None
    /\ calls' = <<"reset", "reset">>
    /\ MwLogsCleared
    /\ in_heart_rate' = 0
    /\ UNCHANGED <<now, queries, shown_scale, ctVars, ctLog, thVars>>
    /\ UNCHANGED dropped

MwTick(d) ==
    /\ now + d <= MaxTime
    /\ now' = now + d
    /\ op' = "tick"
    /\ calls' = <<>>
    /\ in_heart_rate' = 0
    /\ MwLogsCleared
    /\ UNCHANGED <<hrVars, history, updated_at, acVars, queries,
                   shown_scale, ctVars, ctLog, thVars>>
    /\ UNCHANGED dropped

(***************************************************************************)
(* Vectors and matrices.  Lengths are in millimetres (1000 = 1.0 m), unit  *)
(* vectors and rotation entries in 1/1000.  A 3x3 matrix is a tuple of     *)
(* three rows.                                                             *)
(***************************************************************************)
RECURSIVE SqrtIter(_, _)
SqrtIter(n, r) ==
    LET r2 == (r + n \div r) \div 2
    IN  IF r2 >= r THEN r ELSE SqrtIter(n, r2)

\* floor of the square root of n >= 0
Isqrt(n) == IF n <= 0 THEN 0 ELSE SqrtIter(n, n)

Dot(a, b) == a[1] * b[1] + a[2] * b[2] + a[3] * b[3]

\* np.linalg.norm(v)
Norm(v) == Isqrt(Dot(v, v))

\* np.cross(a, b) of two unit-scaled vectors, rescaled to 1/1000
Cross(a, b) ==
    << IntDiv(a[2] * b[3] - a[3] * b[2], 1000),
       IntDiv(a[3] * b[1] - a[1] * b[3], 1000),
       IntDiv(a[1] * b[2] - a[2] * b[1], 1000) >>

\* normalize_vector(v): v itself when its norm is 0, else v / norm
normalize_vector(v) ==
    LET norm == Norm(v)
    IN  IF norm = 0 THEN v
        ELSE << IntDiv(v[1] * 1000, norm),
                IntDiv(v[2] * 1000, norm),
                IntDiv(v[3] * 1000, norm) >>

Identity3 == << <<1000, 0, 0>>, <<0, 1000, 0>>, <<0, 0, 1000>> >>
Zero3     == << <<0, 0, 0>>, <<0, 0, 0>>, <<0, 0, 0>> >>

\* rotation_matrix_from_vectors(forward, up)
rotation_matrix_from_vectors(forward, up) ==
    LET f  == normalize_vector(forward)
        u0 == normalize_vector(up)
        r  == normalize_vector(Cross(f, u0))
        u  == normalize_vector(Cross(r, f))
    IN  << <<r[1], u[1], -f[1]>>,
           <<r[2], u[2], -f[2]>>,
           <<r[3], u[3], -f[3]>> >>

\* calculate_chest_rotation(left_shoulder, right_shoulder, left_hip, right_hip)
calculate_chest_rotation(ls, rs, lh, rh) ==
    LET shoulder_vec == <<rs[1] - ls[1], rs[2] - ls[2], rs[3] - ls[3]>>
        hip_vec      == <<rh[1] - lh[1], rh[2] - lh[2], rh[3] - lh[3]>>
        torso_vec    == << IntDiv(shoulder_vec[1] + hip_vec[1], 2),
                           IntDiv(shoulder_vec[2] + hip_vec[2], 2),
                           IntDiv(shoulder_vec[3] + hip_vec[3], 2) >>
        forward      == normalize_vector(<<-torso_vec[2], torso_vec[1], 0>>)
    IN  rotation_matrix_from_vectors(forward, <<0, 0, 1>>)

HEART_OFFSET_Z == 50      \* 0.05 m
HEART_SCALE == 150        \* 0.15

\* calculate_chest_position(left_shoulder, right_shoulder, offset_z)
calculate_chest_position(ls, rs, offset_z) ==
    << IntDiv(ls[1] + rs[1], 2),
       IntDiv(ls[2] + rs[2], 2),
       IntDiv(ls[3] + rs[3], 2) - offset_z >>

\* create_transform_matrix(position, rotation, scale): a 4x4 matrix
create_transform_matrix_Unscaled(position, rotation, scale) ==
    << << rotation[1][1], rotation[1][2], rotation[1][3], position[1] >>,
       << rotation[2][1], rotation[2][2], rotation[2][3], position[2] >>,
       << rotation[3][1], rotation[3][2], rotation[3][3], position[3] >>,
       << 0, 0, 0, 1000 >> >>
create_transform_matrix(position, rotation, scale) ==
    << << Scaled(rotation[1][1], scale), Scaled(rotation[1][2], scale),
          Scaled(rotation[1][3], scale), position[1] >>,
       << Scaled(rotation[2][1], scale), Scaled(rotation[2][2], scale),
          Scaled(rotation[2][3], scale), position[2] >>,
       << Scaled(rotation[3][1], scale), Scaled(rotation[3][2], scale),
          Scaled(rotation[3][3], scale), position[3] >>,
       << 0, 0, 0, 1000 >> >>

\* cofactor matrix, determinant and transpose of a 3x3 matrix (1/1000)
Cof(m) ==
    << << IntDiv(m[2][2] * m[3][3] - m[2][3] * m[3][2], 1000),
          IntDiv(m[2][3] * m[3][1] - m[2][1] * m[3][3], 1000),
          IntDiv(m[2][1] * m[3][2] - m[2][2] * m[3][1], 1000) >>,
       << IntDiv(m[1][3] * m[3][2] - m[1][2] * m[3][3], 1000),
          IntDiv(m[1][1] * m[3][3] - m[1][3] * m[3][1], 1000),
          IntDiv(m[1][2] * m[3][1] - m[1][1] * m[3][2], 1000) >>,
       << IntDiv(m[1][2] * m[2][3] - m[1][3] * m[2][2], 1000),
          IntDiv(m[1][3] * m[2][1] - m[1][1] * m[2][3], 1000),
          IntDiv(m[1][1] * m[2][2] - m[1][2] * m[2][1], 1000) >> >>

\* np.linalg.det(m)
Det(m) ==
    IntDiv(  m[1][1] * IntDiv(m[2][2] * m[3][3] - m[2][3] * m[3][2], 1000)
           + m[1][2] * IntDiv(m[2][3] * m[3][1] - m[2][1] * m[3][3], 1000)
           + m[1][3] * IntDiv(m[2][1] * m[3][2] - m[2][2] * m[3][1], 1000),
           1000)

\* one Newton step X := (X + X^-T) / 2 towards the orthogonal polar factor,
\* for a matrix m with cofactor matrix c and determinant d # 0
PolarStep(m, c, d) ==
    LET h(i, j) == IntDiv(m[i][j] + IntDiv(c[i][j] * 1000, d), 2)
    IN  << <<h(1, 1), h(1, 2), h(1, 3)>>,
           <<h(2, 1), h(2, 2), h(2, 3)>>,
           <<h(3, 1), h(3, 2), h(3, 3)>> >>

RECURSIVE PolarIter(_, _)
PolarIter(m, k) ==
    LET d == Det(m)
    IN  IF k = 0 \/ d = 0 THEN m
        ELSE PolarIter(PolarStep(m, Cof(m), d), k - 1)

\* "U, _, Vt = np.linalg.svd(rotation); rotation = U @ Vt", with the last
\* column of U negated when det(U @ Vt) < 0.  U @ Vt is the orthogonal polar
\* factor of the matrix; it is computed by Newton's iteration.  For the zero
\* matrix LAPACK returns U = Vt = I.  A blend of rotations (or of a rotation
\* and the zero matrix) has a positive determinant, so the negated-column
\* branch is not reached by the tracker; it is modelled by negating the
\* last column of the polar factor.
Orthonormalize(m) ==
    IF m = Zero3 THEN Identity3
    ELSE LET q == PolarIter(m, 6)
         IN  IF Det(q) < 0
             THEN << <<q[1][1], q[1][2], -q[1][3]>>,
                     <<q[2][1], q[2][2], -q[2][3]>>,
                     <<q[3][1], q[3][2], -q[3][3]>> >>
             ELSE q

(***************************************************************************)
(* ChestTracker                                                            *)
(***************************************************************************)
LEFT_SHOULDER == 11
RIGHT_SHOULDER == 12
LEFT_HIP == 23
RIGHT_HIP == 24
VISIBILITY_THRESHOLD == 500     \* "landmark.visibility < 0.5"
smoothing_factor == 700         \* 0.7

\* A landmark list is [len |-> n, landmark |-> f]: f[i] is the landmark at
\* index i, [visibility |-> v, p |-> coordinates]; indices >= n do not exist.
Lm(v, p) == [visibility |-> v, p |-> p]
Landmarks(n, a, b, c, d) ==
    [len |-> n,
     landmark |-> (LEFT_SHOULDER :> a @@ RIGHT_SHOULDER :> b
                   @@ LEFT_HIP :> c @@ RIGHT_HIP :> d)]
NoFrame == [len |-> 0, landmark |-> <<>>]

\* extract_landmark_3d / extract_landmark_2d (the same two tests)
extract_landmark_Lenient(landmarks, index) ==
    IF index >= landmarks.len THEN None
    ELSE Some(landmarks.landmark[index].p)
extract_landmark(landmarks, index) ==
    IF index >= landmarks.len THEN None
    ELSE IF landmarks.landmark[index].visibility < VISIBILITY_THRESHOLD
         THEN None
         ELSE Some(landmarks.landmark[index].p)

\* "if left_shoulder is None or right_shoulder is None"
ShouldersMissing(landmarks) ==
    \/ extract_landmark(landmarks, LEFT_SHOULDER) = None
    \/ extract_landmark(landmarks, RIGHT_SHOULDER) = None

HipsPresent(landmarks) ==
    /\ extract_landmark(landmarks, LEFT_HIP) # None
    /\ extract_landmark(landmarks, RIGHT_HIP) # None

\* smoothing_factor * last + (1.0 - smoothing_factor) * new, one coordinate
Blend_Swapped(last, new) ==
    IntDiv((1000 - smoothing_factor) * last + smoothing_factor * new, 1000)
Blend(last, new) ==
    IntDiv(smoothing_factor * last + (1000 - smoothing_factor) * new, 1000)

\* exponential smoothing of a position against the stored one
SmoothPosition(last, new) ==
    IF last # None
    THEN IF Len(new) = 2
         THEN << Blend(Val(last)[1], new[1]), Blend(Val(last)[2], new[2]) >>
         ELSE << Blend(Val(last)[1], new[1]), Blend(Val(last)[2], new[2]),
                 Blend(Val(last)[3], new[3]) >>
    ELSE new

\* what a call that finds a shoulder missing returns for a stored field
\* ("return self.last_position, self.last_rotation")
ReturnOnMiss_Absent(stored) == None
ReturnOnMiss(stored) == stored

\* what the stored field is after a call that finds a shoulder missing
\* (the early return assigns nothing)
StoredAfterMiss_Cleared(stored) == None
StoredAfterMiss(stored) == stored

\* new_position of track_chest
NewPosition(w) ==
    calculate_chest_position(Val(extract_landmark(w, LEFT_SHOULDER)),
                             Val(extract_landmark(w, RIGHT_SHOULDER)),
                             HEART_OFFSET_Z)

\* new_rotation of track_chest
NewRotation(w) ==
    LET ls == Val(extract_landmark(w, LEFT_SHOULDER))
        rs == Val(extract_landmark(w, RIGHT_SHOULDER))
    IN  IF HipsPresent(w)
        THEN calculate_chest_rotation(ls, rs,
                 Val(extract_landmark(w, LEFT_HIP)),
                 Val(extract_landmark(w, RIGHT_HIP)))
        ELSE IF Norm(<<rs[1] - ls[1], rs[2] - ls[2], rs[3] - ls[3]>>) > 0
             THEN rotation_matrix_from_vectors(<<0, 0, -1>>, <<0, 1, 0>>)
             ELSE Identity3

\* linear blend with the stored rotation, then re-orthonormalization
SmoothRotation(last, new) ==
    IF last # None
    THEN LET b(i, j) == Blend(Val(last)[i][j], new[i][j])
         IN  Orthonormalize(<< <<b(1, 1), b(1, 2), b(1, 3)>>,
                               <<b(2, 1), b(2, 2), b(2, 3)>>,
                               <<b(3, 1), b(3, 2), b(3, 3)>> >>)
    ELSE new

\* track_chest(world_landmarks): the returned pair and the stored pair
track_chest(lp, lr, w) ==
    IF ShouldersMissing(w)
    THEN [position |-> ReturnOnMiss(lp), rotation |-> ReturnOnMiss(lr),
          last_position |-> StoredAfterMiss(lp),
          last_rotation |-> StoredAfterMiss(lr)]
    ELSE LET position == SmoothPosition(lp, NewPosition(w))
             rotation == SmoothRotation(lr, NewRotation(w))
         IN  [position |-> Some(position), rotation |-> Some(rotation),
              last_position |-> Some(position),
              last_rotation |-> Some(rotation)]

\* the anchor of get_chest_position_2d before smoothing, in 1/1000 pixel
NewPosition2D_NoShift(n, frame_width, frame_height) ==
    LET ls == Val(extract_landmark(n, LEFT_SHOULDER))
        rs == Val(extract_landmark(n, RIGHT_SHOULDER))
        shoulder_width == Abs((rs[1] - ls[1]) * frame_width)
    IN  << IntDiv((ls[1] + rs[1]) * frame_width, 2),
           IntDiv((ls[2] + rs[2]) * frame_height, 2)
               + Scaled(shoulder_width, 300) >>

NewPosition2D(n, frame_width, frame_height) ==
    LET ls == Val(extract_landmark(n, LEFT_SHOULDER))
        rs == Val(extract_landmark(n, RIGHT_SHOULDER))
        chest_x == IntDiv((ls[1] + rs[1]) * frame_width, 2)
        chest_y == IntDiv((ls[2] + rs[2]) * frame_height, 2)
        shoulder_width == Abs((rs[1] - ls[1]) * frame_width)
        down == IF HipsPresent(n)
                THEN LET lh == Val(extract_landmark(n, LEFT_HIP))
                         rh == Val(extract_landmark(n, RIGHT_HIP))
                         hip_center_y ==
                             IntDiv((lh[2] + rh[2]) * frame_height, 2)
                     IN  Scaled(hip_center_y - chest_y, 250)
                ELSE Scaled(shoulder_width, 300)
    IN  << chest_x + Scaled(shoulder_width, 150), chest_y + down >>

\* get_chest_position_2d: the returned value and the stored position
get_chest_position_2d_Stale(l2d, n, frame_width, frame_height) ==
    IF ShouldersMissing(n)
    THEN [ret |-> l2d, last_position_2d |-> l2d]
    ELSE LET chest_pos_2d ==
                 SmoothPosition(l2d, NewPosition2D(n, frame_width, frame_height))
         IN  [ret |-> Some(chest_pos_2d),
              last_position_2d |-> Some(chest_pos_2d)]
get_chest_position_2d(l2d, n, frame_width, frame_height) ==
    IF ShouldersMissing(n)
    THEN [ret |-> None, last_position_2d |-> StoredAfterMiss(l2d)]
    ELSE LET chest_pos_2d ==
                 SmoothPosition(l2d, NewPosition2D(n, frame_width, frame_height))
         IN  [ret |-> Some(chest_pos_2d),
              last_position_2d |-> Some(chest_pos_2d)]

CtInit ==
    /\ last_position = None
    /\ last_rotation = None
    /\ last_position_2d = None
    /\ ret_position = None
    /\ ret_rotation = None
    /\ ret_2d = None
    /\ ret_matrix = None
    /\ in_frame = NoFrame
    /\ in_size = <<0, 0>>
    /\ cleared = 0
    /\ frames = 0

CtTrackChest_Clears2D(w) ==
    /\ frames < MaxFrames
    /\ frames' = frames + 1
    /\ in_frame' = w
    /\ in_size' = <<0, 0>>
    /\ op' = "track_chest"
    /\ \E r \in {track_chest(last_position, last_rotation, w)} :
           /\ last_position' = r.last_position
           /\ last_rotation' = r.last_rotation
           /\ ret_position' = r.position
           /\ ret_rotation' = r.rotation
    /\ ret_2d' = None
    /\ ret_matrix' = None
    /\ last_position_2d' = None
    /\ UNCHANGED <<now, hrVars, hrLog, acVars, acLog, thVars, mwVars>>
    /\ cleared' = IF op = "reset" THEN cleared ELSE 0

CtTrackChest(w) ==
    /\ frames < MaxFrames
    /\ frames' = frames + 1
    /\ in_frame' = w
    /\ in_size' = <<0, 0>>
    /\ op' = "track_chest"
    /\ \E r \in {track_chest(last_position, last_rotation, w)} :
           /\ last_position' = r.last_position
           /\ last_rotation' = r.last_rotation
           /\ ret_position' = r.position
           /\ ret_rotation' = r.rotation
    /\ ret_2d' = None
    /\ ret_matrix' = None
    /\ UNCHANGED <<now, last_position_2d, hrVars, hrLog, acVars, acLog,
                   thVars, mwVars>>
    /\ cleared' = IF op = "reset" THEN cleared ELSE 0

CtGetChestPosition2D(n, frame_width, frame_height) ==
    /\ frames < MaxFrames
    /\ frames' = frames + 1
    /\ in_frame' = n
    /\ in_size' = <<frame_width, frame_height>>
    /\ op' = "get_chest_position_2d"
    /\ \E r \in {get_chest_position_2d(last_position_2d, n,
                                       frame_width, frame_height)} :
           /\ last_position_2d' = r.last_position_2d
           /\ ret_2d' = r.ret
    /\ ret_position' = None
    /\ ret_rotation' = None
    /\ ret_matrix' = None
    /\ UNCHANGED <<now, last_position, last_rotation,
                   hrVars, hrLog, acVars, acLog, thVars, mwVars>>
    /\ cleared' = IF op = "reset" THEN cleared ELSE 0

\* get_transform_matrix(world_landmarks): track_chest, then the matrix
CtGetTransformMatrix(w) ==
    /\ frames < MaxFrames
    /\ frames' = frames + 1
    /\ in_frame' = w
    /\ in_size' = <<0, 0>>
    /\ op' = "get_transform_matrix"
    /\ \E r \in {track_chest(last_position, last_rotation, w)} :
           /\ last_position' = r.last_position
           /\ last_rotation' = r.last_rotation
           /\ ret_position' = r.position
           /\ ret_rotation' = r.rotation
           /\ ret_matrix' =
                IF r.position = None \/ r.rotation = None THEN None
                ELSE Some(create_transform_matrix(Val(r.position),
                                                  Val(r.rotation), HEART_SCALE))
    /\ ret_2d' = None
    /\ UNCHANGED <<now, last_position_2d, hrVars, hrLog, acVars, acLog,
                   thVars, mwVars>>
    /\ cleared' = IF op = "reset" THEN cleared ELSE 0

\* get_transform_matrix_2d: get_chest_position_2d, then a matrix at the
\* fixed position (0, 0, -1) with the identity rotation
CtGetTransformMatrix2D(n, frame_width, frame_height) ==
    /\ frames < MaxFrames
    /\ frames' = frames + 1
    /\ in_frame' = n
    /\ in_size' = <<frame_width, frame_height>>
    /\ op' = "get_transform_matrix_2d"
    /\ \E r \in {get_chest_position_2d(last_position_2d, n,
                                       frame_width, frame_height)} :
           /\ last_position_2d' = r.last_position_2d
           /\ ret_2d' = r.ret
           /\ ret_matrix' =
                IF r.ret = None THEN None
                ELSE Some(create_transform_matrix(<<0, 0, -1000>>,
                                                  Identity3, HEART_SCALE))
    /\ ret_position' = None
    /\ ret_rotation' = None
    /\ UNCHANGED <<now, last_position, last_rotation,
                   hrVars, hrLog, acVars, acLog, thVars, mwVars>>
    /\ cleared' = IF op = "reset" THEN cleared ELSE 0

CtReset_Keep2D ==
    /\ last_position' = None
    /\ last_rotation' = None
    /\ last_position_2d' = last_position_2d
    /\ op' = "reset"
    /\ ret_position' = None
    /\ ret_rotation' = None
    /\ ret_2d' = None
    /\ ret_matrix' = None
    /\ in_frame' = NoFrame
    /\ in_size' = <<0, 0>>
    /\ UNCHANGED <<now, frames, hrVars, hrLog, acVars, acLog, thVars, mwVars>>
    /\ cleared' = IF ctVars # <<None, None, None>> THEN 1 ELSE cleared

CtReset ==
    /\ last_position' = None
    /\ last_rotation' = None
    /\ last_position_2d' = None
    /\ op' = "reset"
    /\ ret_position' = None
    /\ ret_rotation' = None
    /\ ret_2d' = None
    /\ ret_matrix' = None
    /\ in_frame' = NoFrame
    /\ in_size' = <<0, 0>>
    /\ UNCHANGED <<now, frames, hrVars, hrLog, acVars, acLog, thVars, mwVars>>
    /\ cleared' = IF ctVars # <<None, None, None>> THEN 1 ELSE cleared

(***************************************************************************)
(* Landmark inputs of the tracker runs                                     *)
(***************************************************************************)
\* complete lists of 33 landmarks, and lists of 12 that end after the left
\* shoulder (index 11)
WorldFrames ==
    { Landmarks(12, a, Lm(500, <<-200, -400, 100>>), Lm(500, <<100, 0, 0>>),
                Lm(500, <<-100, 0, 0>>)) :
        a \in { Lm(500, <<200, -400, -100>>), Lm(499, <<200, -400, -100>>) } }
    \cup
    { Landmarks(33, a, b, c, d) :
        a \in { Lm(500, <<200, -400, -100>>), Lm(499, <<200, -400, -100>>) },
        b \in { Lm(500, <<-200, -400, 100>>), Lm(500, <<200, -400, -100>>) },
        c \in { Lm(500, <<100, 0, 0>>), Lm(499, <<100, 0, 0>>) },
        d \in { Lm(500, <<-100, 0, 0>>), Lm(500, <<100, 0, 0>>),
                Lm(500, <<-200, 300, 0>>) } }

NormalizedFrames ==
    { Landmarks(12, a, Lm(500, <<600, 300>>), Lm(500, <<450, 700>>),
                Lm(500, <<550, 700>>)) :
        a \in { Lm(500, <<400, 300>>), Lm(499, <<400, 300>>) } }
    \cup
    { Landmarks(33, a, b, c, d) :
        a \in { Lm(500, <<400, 300>>), Lm(499, <<400, 300>>) },
        b \in { Lm(500, <<600, 300>>), Lm(500, <<800, 340>>) },
        c \in { Lm(500, <<450, 700>>), Lm(499, <<450, 700>>) },
        d \in { Lm(500, <<550, 700>>), Lm(500, <<550, 100>>) } }
    \cup
    \* a body seen upside down: both hips above the shoulder line
    { Landmarks(33, Lm(500, <<400, 300>>), Lm(500, <<600, 300>>),
                Lm(500, <<450, 100>>), Lm(500, <<550, 100>>)) }

FrameSizes == { <<1000, 1000>>, <<640, 480>> }

\* the lists passed to the two get_transform_matrix operations: complete
\* lists with a visible left hip
MatrixWorldFrames ==
    { w \in WorldFrames :
        /\ w.len > RIGHT_HIP
        /\ w.landmark[LEFT_HIP].visibility >= VISIBILITY_THRESHOLD
        /\ w.landmark[RIGHT_HIP].p[2] = 0 }

MatrixNormalizedFrames ==
    { n \in NormalizedFrames :
        /\ n.len > RIGHT_HIP
        /\ n.landmark[LEFT_HIP].visibility >= VISIBILITY_THRESHOLD
        /\ n.landmark[RIGHT_HIP].p[2] > n.landmark[LEFT_SHOULDER].p[2] }

(***************************************************************************)
(* Specifications                                                          *)
(***************************************************************************)
InitAnim ==
    /\ now = 0
    /\ op = "init"
    /\ HrInit
    /\ AcInit
    /\ CtInit
    /\ ThInit
    /\ MwInit

NextAnim ==
    \/ \E b \in TargetInputs : AcUpdateBpm(b)
    \/ \E d \in ClockDrift : AcTriggerHeartbeat(d)
    \/ \E lag \in QueryLags : now >= lag /\ AcGetBeatScale(now - lag)
    \/ AcReset
    \/ \E d \in AnimClockSteps : AnimTick(d)

SpecAnim == InitAnim /\ [][NextAnim]_vars

InitTracker ==
    /\ now = 0
    /\ op = "init"
    /\ HrInit
    /\ AcInit
    /\ CtInit
    /\ ThInit
    /\ MwInit

NextTracker ==
    \/ \E w \in WorldFrames : CtTrackChest(w)
    \/ \E n \in NormalizedFrames, z \in FrameSizes :
          CtGetChestPosition2D(n, z[1], z[2])
    \/ \E w \in MatrixWorldFrames : CtGetTransformMatrix(w)
    \/ \E n \in MatrixNormalizedFrames, z \in FrameSizes :
          CtGetTransformMatrix2D(n, z[1], z[2])
    \/ CtReset

SpecTracker == InitTracker /\ [][NextTracker]_vars

InitParser ==
    /\ now = 0
    /\ op = "init"
    /\ HrInit
    /\ AcInit
    /\ CtInit
    /\ ThInit
    /\ MwInit

NextParser ==
    \/ \E h \in BpmInputs : HrUpdate(h)
    \/ HrGetBpm
    \/ HrGetBeatInterval
    \/ \E t \in StaleTimeouts : HrIsStale(t)
    \/ HrReset
    \/ \E d \in ParserClockSteps : ParserTick(d)

SpecParser == InitParser /\ [][NextParser]_vars

InitThreads ==
    /\ now = 0
    /\ op = "init"
    /\ HrInit
    /\ AcInit
    /\ CtInit
    /\ ThInit
    /\ MwInit

NextThreads ==
    \/ TrigWriteLast
    \/ TrigWritePulseStart
    \/ QueryStart
    \/ QueryTest
    \/ QueryElapsedRead
    \/ QueryPulse
    \/ QueryClear
    \/ QueryFallback
    \/ \E d \in ThreadClockSteps : ThreadTick(d)
    \/ \E bpm \in {Some(200)} : ThreadUpdateBpm(bpm)

SpecThreads == InitThreads /\ [][NextThreads]_vars

InitMain ==
    /\ now = 0
    /\ op = "init"
    /\ HrInit
    /\ AcInit
    /\ CtInit
    /\ ThInit
    /\ MwInit

NextMain ==
    \/ \E heart_rate \in MwBeatInputs, d \in ClockDrift :
          MwOnHeartRateReceived(heart_rate, d)
    \/ MwUpdateFrame
    \/ MwDisconnect
    \/ \E d \in MainClockSteps : MwTick(d)

SpecMain == InitMain /\ [][NextMain]_vars

(***************************************************************************)
(* Claims about HeartRateParser (checked under SpecParser)                 *)
(***************************************************************************)
\* the truncated mean of the last min(N, W) logged inputs
WindowOfHistory == LastN(history, Min(Len(history), smoothing_window))
TruncatedMean(w) == IntDiv(SeqSum(w), Len(w))

\* C1: after N >= 1 update calls since construction or the last reset, the
\* window holds exactly the last min(N, W) inputs in arrival order, and the
\* value returned by the last update, current_bpm and get_bpm() all equal
\* the truncated integer mean of those inputs.
C1_TruncatedWindowMean ==
    history # <<>> =>
        /\ recent_values = WindowOfHistory
        /\ hr_current_bpm = Some(TruncatedMean(WindowOfHistory))
        /\ op \in {"update", "get_bpm"} =>
               hr_ret = Some(TruncatedMean(WindowOfHistory))

\* C1 witness: more than W updates were made, the evicted first input
\* differs from the retained ones, and the mean is not a whole number.
C1_Witness ==
    /\ op = "update"
    /\ Len(history) > smoothing_window
    /\ history[1] # history[2]
    /\ SeqSum(recent_values) % smoothing_window # 0
    /\ hr_ret = Some(TruncatedMean(WindowOfHistory))

\* what is_stale must answer, from the log of calls alone
StaleByLog(timeout) == history = <<>> \/ (now - updated_at) > timeout

C2_StaleResult ==
    op = "is_stale" => (stale_ret <=> StaleByLog(stale_arg))

C2_Step ==
    /\ op' = "is_stale" => UNCHANGED hrVars
    /\ \A t \in StaleTimeouts :
          (is_stale(last_update_time, now, t) /\ op' # "update")
              => is_stale(last_update_time', now', t)

\* C2: is_stale(timeout) answers true before any update; after an update it
\* answers false while now - (time of the last update) <= timeout and true
\* exactly when that elapsed time exceeds timeout; once it is true it stays
\* true at every later instant until the next update; and calling it
\* changes no field of the parser.
C2_IsStale == [](C2_StaleResult) /\ [][C2_Step]_vars

\* C2 witness: is_stale answered true after an update because more than
\* timeout elapsed (and a call at elapsed = timeout is covered by
\* C2_WitnessBoundary below).
C2_Witness ==
    /\ op = "is_stale"
    /\ history # <<>>
    /\ stale_arg > 0
    /\ now - updated_at > stale_arg
    /\ stale_ret

\* is_stale answered false at elapsed time exactly equal to the timeout
C2_WitnessBoundary ==
    /\ op = "is_stale"
    /\ history # <<>>
    /\ stale_arg > 0
    /\ now - updated_at = stale_arg
    /\ ~stale_ret

(***************************************************************************)
(* Claims about AnimationController (checked under SpecAnim)               *)
(***************************************************************************)
\* pulse_elapsed of the last query, when the pulse start survived it
QueryElapsed == q_time - Val(heartbeat_pulse_start)

C3_Step ==
    op' = "get_beat_scale" =>
        LET active == /\ heartbeat_pulse_start # None
                      /\ (q_time' - Val(heartbeat_pulse_start)) < pulse_duration
        IN  /\ (q_mode' = "event") <=> active
            /\ active =>
                 /\ scale_ret' = Some(1000 + EventPulse(
                                   q_time' - Val(heartbeat_pulse_start)))
                 /\ UNCHANGED ac_current_bpm
            /\ ~active =>
                 /\ q_mode' \in {"periodic", "neutral"}
                 /\ scale_ret' = Some(FallbackScale(ac_current_bpm',
                                                    q_time' - start_time))

\* C3: every get_beat_scale(now) query is answered by exactly one mode:
\* by the event-pulse curve if and only if a pulse start is recorded and
\* now - pulse start < pulse_duration, and otherwise by the BPM-periodic
\* fallback (or neutral 1.0); the returned value is that one curve's value.
C3_ExactlyOneMode == [][C3_Step]_vars

\* C3 witness: a query answered by the event curve although a positive BPM
\* is set, returning a value the fallback would not have returned.
C3_Witness ==
    /\ op = "get_beat_scale"
    /\ q_mode = "event"
    /\ ac_current_bpm # None
    /\ Val(ac_current_bpm) > 0
    /\ scale_ret # Some(FallbackScale(ac_current_bpm, q_time - start_time))

\* C4 (as claimed): a query made immediately after trigger_heartbeat()
\* returns a scale strictly greater than 1.0.
C4_ImmediateQueryAboveOne ==
    [][(op = "trigger_heartbeat" /\ op' = "get_beat_scale")
          => Val(scale_ret') > 1000]_vars

\* C4 (amended): a query at the trigger instant itself (elapsed time 0)
\* returns exactly 1.0; a query at an elapsed time of at least one clock
\* step and below pulse_duration returns a scale strictly greater than 1.0.
C4_PulseAboveOneAfterStart ==
    (op = "get_beat_scale" /\ heartbeat_pulse_start # None) =>
        /\ QueryElapsed = 0 => scale_ret = Some(1000)
        /\ (0 < QueryElapsed /\ QueryElapsed < pulse_duration)
              => Val(scale_ret) > 1000

\* C4 witness: a query late in the decay phase, still above 1.0.
C4_Witness ==
    /\ op = "get_beat_scale"
    /\ heartbeat_pulse_start # None
    /\ QueryElapsed = pulse_duration - 3
    /\ Val(scale_ret) > 1000

C5_Step ==
    /\ ( /\ op' = "get_beat_scale"
         /\ heartbeat_pulse_start # None
         /\ (q_time' - Val(heartbeat_pulse_start)) >= pulse_duration )
       => /\ heartbeat_pulse_start' = None
          /\ q_mode' # "event"
          /\ scale_ret' = Some(FallbackScale(ac_current_bpm',
                                             q_time' - start_time))
    /\ (heartbeat_pulse_start = None /\ op' # "trigger_heartbeat")
       => heartbeat_pulse_start' = None
    /\ (heartbeat_pulse_start = None /\ op' = "get_beat_scale")
       => /\ q_mode' # "event"
          /\ scale_ret' = Some(FallbackScale(ac_current_bpm',
                                             q_time' - start_time))

\* C5: a query made when the time since the pulse start is >= pulse_duration
\* clears the pulse-start timestamp and is answered by the fallback; the
\* timestamp then stays absent, and every later query is answered by the
\* fallback, until trigger_heartbeat is called again.
C5_ExpiredPulseFallsBack == [][C5_Step]_vars

\* C5 witness: a query answered by the periodic fallback after a pulse that
\* was triggered at least pulse_duration earlier.
C5_Witness ==
    /\ op = "get_beat_scale"
    /\ q_mode = "periodic"
    /\ heartbeat_pulse_start = None
    /\ last_heartbeat_time # None
    /\ q_time - Val(last_heartbeat_time) >= pulse_duration

\* C6 (as claimed): the event curve is continuous at progress = 0.3: the
\* value returned at pulse_elapsed = 0.3 * pulse_duration (decay branch)
\* equals the limit of the rise branch there, 1.0 + RisePulse at that
\* point (within the 0.002 error of the sine approximation).
C6_ContinuousAtBoundary ==
    ( /\ op = "get_beat_scale"
      /\ heartbeat_pulse_start # None
      /\ 10 * QueryElapsed = 3 * pulse_duration )
    => Abs(Val(scale_ret) - (1000 + RisePulse(QueryElapsed))) <= 2

C7_Step ==
    (target_bpm' = None /\ op' # "reset") => UNCHANGED ac_current_bpm

\* C7: while the target is absent (from update_bpm(None) on), no operation
\* other than reset() changes current_bpm: get_beat_scale queries in either
\* mode leave it exactly at the value it had.
C7_AbsentTargetFreezesCurrent == [][C7_Step]_vars

\* C7 witness: a fallback query with the target absent and a current BPM
\* left over from an earlier target.
C7_Witness ==
    /\ op = "get_beat_scale"
    /\ q_mode = "periodic"
    /\ target_bpm = None
    /\ ac_current_bpm # None
    /\ queries >= 2

(***************************************************************************)
(* Claims about ChestTracker (checked under SpecTracker)                   *)
(***************************************************************************)
\* a landmark the tracker must treat as absent: beyond the end of the list
\* or with visibility below 0.5
LandmarkAbsent(f, index) ==
    index >= f.len \/ f.landmark[index].visibility < 500

ShoulderAbsent(f) ==
    LandmarkAbsent(f, LEFT_SHOULDER) \/ LandmarkAbsent(f, RIGHT_SHOULDER)

Is3DCall(o) == o \in {"track_chest", "get_transform_matrix"}
Is2DCall(o) == o \in {"get_chest_position_2d", "get_transform_matrix_2d"}

C8_Step ==
    /\ (Is3DCall(op') /\ ShoulderAbsent(in_frame')) =>
          /\ ret_position' = last_position
          /\ ret_rotation' = last_rotation
          /\ UNCHANGED ctVars
    /\ (last_position = None /\ last_position' # None) =>
          (Is3DCall(op') /\ ~ShoulderAbsent(in_frame'))
    /\ (last_rotation = None /\ last_rotation' # None) =>
          (Is3DCall(op') /\ ~ShoulderAbsent(in_frame'))

C8_WitnessFirstCall ==
    /\ op = "track_chest"
    /\ frames = 1
    /\ ShoulderAbsent(in_frame)
    /\ ret_position = None
    /\ ret_rotation = None

C9_Step ==
    /\ (last_position # None /\ last_position' = None) => op' = "reset"
    /\ (last_rotation # None /\ last_rotation' = None) => op' = "reset"
    /\ (last_position_2d # None /\ last_position_2d' = None) => op' = "reset"

\* C9: in every sequence of tracker operations, a field among last_position,
\* last_rotation, last_position_2d that is present becomes absent only by
\* reset(); a call on which tracking fails clears none of them.
C9_OnlyResetClears == [][C9_Step]_vars

\* C9 witness: a 2D call failed (returned None) while all three fields are
\* still present.
C9_Witness ==
    /\ op = "get_chest_position_2d"
    /\ ShoulderAbsent(in_frame)
    /\ ret_2d = None
    /\ last_position_2d # None
    /\ last_position # None
    /\ last_rotation # None

\* new = alpha * prev + (1 - alpha) * target up to fixed-point rounding, and
\* new lies between prev and target (no overshoot, distance never grows)
BlendOf(new, prev, target) ==
    /\ Abs(1000 * (new - target) - 700 * (prev - target)) < 1000
    /\ (prev <= target => (prev <= new /\ new <= target))
    /\ (prev >= target => (target <= new /\ new <= prev))

C10_Step ==
    /\ (Is3DCall(op') /\ ~ShoulderAbsent(in_frame')) =>
          LET target == NewPosition(in_frame')
              new    == Val(ret_position')
          IN  IF last_position = None THEN new = target
              ELSE \A i \in 1..3 :
                      BlendOf(new[i], Val(last_position)[i], target[i])
    /\ (Is2DCall(op') /\ ~ShoulderAbsent(in_frame')) =>
          LET target == NewPosition2D(in_frame', in_size'[1], in_size'[2])
              new    == Val(ret_2d')
          IN  IF last_position_2d = None THEN new = target
              ELSE \A i \in 1..2 :
                      BlendOf(new[i], Val(last_position_2d)[i], target[i])

\* C10: with both shoulders visible, each returned smoothed position is
\* alpha * previous + (1 - alpha) * target (alpha = 0.7): its distance to
\* the target is alpha times the previous distance, it never moves away
\* from the target nor past it, and a call with no prior state returns the
\* target itself.  Holding the input constant repeats this step.
C10_GeometricConvergence == [][C10_Step]_vars

\* C10 witness: after a first position (0, -400, -50) the same target
\* (200, -400, -150) was supplied twice: 0 -> 60 -> 102 on the x axis.
C10_Witness ==
    /\ op = "track_chest"
    /\ ~ShoulderAbsent(in_frame)
    /\ NewPosition(in_frame) = <<200, -400, -150>>
    /\ ret_position = Some(<<102, -400, -101>>)

\* m is orthonormal with determinant +1, up to the fixed-point rounding of
\* the model (3 per cent)
IsProperRotation(m) ==
    /\ \A i \in 1..3 : \A j \in 1..3 :
          LET g == IntDiv(m[1][i] * m[1][j] + m[2][i] * m[2][j]
                          + m[3][i] * m[3][j], 1000)
          IN  Abs(g - (IF i = j THEN 1000 ELSE 0)) <= 30
    /\ Abs(Det(m) - 1000) <= 30

\* the averaged shoulder and hip lines have no horizontal (x, y) component
DegenerateTorso(f) ==
    /\ ~ShoulderAbsent(f)
    /\ ~LandmarkAbsent(f, LEFT_HIP)
    /\ ~LandmarkAbsent(f, RIGHT_HIP)
    /\ LET ls == f.landmark[LEFT_SHOULDER].p
           rs == f.landmark[RIGHT_SHOULDER].p
           lh == f.landmark[LEFT_HIP].p
           rh == f.landmark[RIGHT_HIP].p
       IN  /\ (rs[1] - ls[1]) + (rh[1] - lh[1]) = 0
           /\ (rs[2] - ls[2]) + (rh[2] - lh[2]) = 0

\* C11: after every track_chest call that has both shoulders present, for
\* any landmark geometry and any prior state, the rotation stored in
\* last_rotation and returned is a proper rotation (orthonormal,
\* determinant +1).
C11_ProperRotation ==
    (Is3DCall(op) /\ ~ShoulderAbsent(in_frame)) =>
        /\ last_rotation # None
        /\ ret_rotation = last_rotation
        /\ IsProperRotation(Val(last_rotation))

\* what the code does guarantee: the stored rotation is proper unless this
\* call had no prior rotation and a degenerate torso
C11_ProperUnlessDegenerateFirst ==
    (Is3DCall(op) /\ ~ShoulderAbsent(in_frame)) =>
        /\ last_rotation # None
        /\ ret_rotation = last_rotation
        /\ \/ IsProperRotation(Val(last_rotation))
           \/ (DegenerateTorso(in_frame) /\ Val(last_rotation) = Zero3)

HipPairAbsent(f) ==
    LandmarkAbsent(f, LEFT_HIP) \/ LandmarkAbsent(f, RIGHT_HIP)

C12_Step ==
    (/\ Is2DCall(op')
     /\ last_position_2d = None
     /\ ~ShoulderAbsent(in_frame')
     /\ HipPairAbsent(in_frame')) =>
        LET left  == in_frame'.landmark[LEFT_SHOULDER].p
            right == in_frame'.landmark[RIGHT_SHOULDER].p
            frame_width  == in_size'[1]
            frame_height == in_size'[2]
            shoulder_width_px == Abs(right[1] - left[1]) * frame_width
            new == Val(ret_2d')
        IN  /\ ret_2d' # None
            /\ Abs(2000 * new[1] - (1000 * (left[1] + right[1]) * frame_width
                                    + 300 * shoulder_width_px)) <= 2000
            /\ Abs(2000 * new[2] - (1000 * (left[2] + right[2]) * frame_height
                                    + 600 * shoulder_width_px)) <= 2000
            /\ (/\ left = <<400, 300>> /\ right = <<600, 300>>
                /\ in_size' = <<1000, 1000>>) => new = <<530000, 360000>>

\* C12: with both shoulders visible, no usable hip pair and no prior 2D
\* state, get_chest_position_2d returns x = shoulder midpoint x * frame_width
\* + 0.15 * shoulder_width_px and y = shoulder midpoint y * frame_height
\* + 0.30 * shoulder_width_px, with shoulder_width_px = |right.x - left.x|
\* * frame_width; shoulders (0.4, 0.3), (0.6, 0.3) on 1000x1000 give
\* (530, 360).
C12_FallbackAnchor2D == [][C12_Step]_vars

\* C12 witness: the first 2D call, hips not usable, the example of the claim.
C12_Witness ==
    /\ op = "get_chest_position_2d"
    /\ frames = 1
    /\ ~ShoulderAbsent(in_frame)
    /\ HipPairAbsent(in_frame)
    /\ in_frame.landmark[LEFT_SHOULDER].p = <<400, 300>>
    /\ in_frame.landmark[RIGHT_SHOULDER].p = <<600, 300>>
    /\ in_size = <<1000, 1000>>
    /\ ret_2d = Some(<<530000, 360000>>)

\* the landmark list f with the coordinates of every absent landmark
\* replaced by the value hidden
HideAbsent(f, hidden) ==
    [f EXCEPT !.landmark =
        [i \in DOMAIN f.landmark |->
            IF LandmarkAbsent(f, i)
            THEN [visibility |-> f.landmark[i].visibility, p |-> hidden]
            ELSE f.landmark[i]]]

TrackerIndices == {LEFT_SHOULDER, RIGHT_SHOULDER, LEFT_HIP, RIGHT_HIP}

C13_Step ==
    /\ (Is3DCall(op') \/ Is2DCall(op')) =>
          \A i \in TrackerIndices :
              LandmarkAbsent(in_frame', i) =>
                  extract_landmark(in_frame', i) = None
    /\ Is3DCall(op') =>
          \E r \in {track_chest(last_position, last_rotation,
                               HideAbsent(in_frame', <<7777, 7777, 7777>>))} :
              /\ ret_position' = r.position
              /\ ret_rotation' = r.rotation
              /\ last_position' = r.last_position
              /\ last_rotation' = r.last_rotation
              /\ ShoulderAbsent(in_frame') =>
                    (ret_position' = last_position /\ UNCHANGED ctVars)
              /\ (~ShoulderAbsent(in_frame') /\ HipPairAbsent(in_frame')
                  /\ last_rotation = None) =>
                    ret_rotation' = Some(Identity3)
    /\ Is2DCall(op') =>
          \E r \in {get_chest_position_2d(last_position_2d,
                       HideAbsent(in_frame', <<7777, 7777>>),
                       in_size'[1], in_size'[2])} :
              /\ ret_2d' = r.ret
              /\ last_position_2d' = r.last_position_2d
              /\ ShoulderAbsent(in_frame') =>
                    (ret_2d' = None /\ UNCHANGED ctVars)

\* C13: no tracker output or stored anchor state depends on the coordinates
\* of a landmark whose visibility is below 0.5 or whose index is beyond the
\* list: extraction returns absent for it, every result equals the result
\* for the same list with those coordinates replaced, and the call takes
\* the missing-shoulder or missing-hip branch.
C13_AbsentLandmarksUnused == [][C13_Step]_vars

\* C13 witness: a 3D call with an invisible left hip (visibility 0.499)
\* took the shoulder-only branch on a fresh tracker.
C13_Witness ==
    /\ op = "track_chest"
    /\ frames = 1
    /\ ~ShoulderAbsent(in_frame)
    /\ in_frame.len > LEFT_HIP
    /\ in_frame.landmark[LEFT_HIP].visibility = 499
    /\ ret_rotation = Some(Identity3)
    /\ ret_position = last_position

\* a 2D call with an invisible left shoulder returned nothing
C13_WitnessShoulder2D ==
    /\ op = "get_chest_position_2d"
    /\ in_frame.len > LEFT_SHOULDER
    /\ in_frame.landmark[LEFT_SHOULDER].visibility = 499
    /\ ret_2d = None

(***************************************************************************)
(* Claims about the two threads (checked under SpecThreads)                *)
(***************************************************************************)
\* the query that returned was the first to start after a completed
\* trigger, and started within pulse_duration of it
FirstQueryAfterTrigger ==
    /\ op = "query_return"
    /\ g_first # None
    /\ g_time - Val(g_first) < pulse_duration

C14_Answered == FirstQueryAfterTrigger => q_mode = "event"

C14_Step ==
    \* the timestamp the reader erases is the expired one it examined
    /\ op' = "query_clear" => heartbeat_pulse_start = g_seen
    \* the timestamp the reader computes with is present and is the one
    \* it tested
    /\ op' = "query_elapsed" =>
          (heartbeat_pulse_start # None /\ heartbeat_pulse_start = g_seen)

\* C14: with trigger_heartbeat and get_beat_scale interleaved field by
\* field, no completed trigger is lost or corrupted: the first query that
\* starts after a trigger and within pulse_duration of it is answered in
\* event-pulse mode, the reader's clearing of the pulse start never erases
\* a newer trigger, and the query never computes with an absent or
\* mismatched timestamp.
C14_NoTriggerLost == [](C14_Answered) /\ [][C14_Step]_vars

\* the part of C14 that does hold under interleaving: the reader never
\* reads an absent timestamp after its test, and a query that is the first
\* after a trigger is answered in event mode unless a clear ran meanwhile
C14_NeverAbsent ==
    (g_pc = "elapsed") => heartbeat_pulse_start # None

(***************************************************************************)
(* Claims about MainWindow (checked under SpecMain)                        *)
(***************************************************************************)
C15_Step ==
    op' = "on_heart_rate_received" =>
        IF in_heart_rate' < 30 \/ in_heart_rate' > 220
        THEN /\ calls' = <<>>
             /\ UNCHANGED <<recent_values, hr_current_bpm, last_update_time>>
             /\ UNCHANGED <<target_bpm, last_heartbeat_time,
                            heartbeat_pulse_start>>
        ELSE /\ calls' = <<"update", "update_bpm", "trigger_heartbeat">>
             \* the parser took the value
             /\ history' = Append(history, in_heart_rate')
             /\ recent_values' =
                   LastN(history', Min(Len(history'), smoothing_window))
             /\ hr_current_bpm' = Some(TruncatedMean(recent_values'))
             /\ last_update_time' = Some(now)
             \* the target is the mean that includes the new value
             /\ target_bpm' = hr_current_bpm'
             \* the pulse is stamped no earlier than the update
             /\ last_heartbeat_time' # None
             /\ heartbeat_pulse_start' # None
             /\ Val(last_heartbeat_time') >= Val(last_update_time')
             /\ Val(heartbeat_pulse_start') >= Val(last_heartbeat_time')

\* C15: a beat notification below 30 or above 220 leaves the parser window,
\* current BPM and last-update time and the animation target and pulse
\* timestamps exactly as before; a value in [30, 220] updates the parser,
\* then sets the animation target to the smoothed BPM, then triggers a
\* pulse.
C15_OutOfRangeIgnored == [][C15_Step]_vars

\* C15 witness: a notification of 221 arrived while beat state was present
\* and nothing was called.
C15_Witness ==
    /\ op = "on_heart_rate_received"
    /\ in_heart_rate = 221
    /\ calls = <<>>
    /\ hr_current_bpm # None
    /\ heartbeat_pulse_start # None

\* a notification of exactly 220 was accepted
C15_WitnessAccepted ==
    /\ op = "on_heart_rate_received"
    /\ in_heart_rate = 220
    /\ calls = <<"update", "update_bpm", "trigger_heartbeat">>
    /\ target_bpm = hr_current_bpm
    /\ Len(history) > 1

(***************************************************************************)
(* Claims about HeartRateParser.reset (checked under SpecParser)           *)
(***************************************************************************)
\* no update since construction or the last reset
C16_Fresh ==
    history = <<>> =>
        /\ op = "get_bpm" => hr_ret = None
        /\ op = "get_beat_interval" => hr_ret = None
        /\ op = "is_stale" => stale_ret

C16_Step ==
    /\ op' = "reset" =>
          /\ recent_values' = <<>>
          /\ hr_current_bpm' = None
          /\ last_update_time' = None
          /\ history' = <<>>
    /\ (op' = "update" /\ history = <<>>) =>
          /\ Len(history') = 1
          /\ hr_ret' = Some(history'[1])
          /\ hr_current_bpm' = hr_ret'
          /\ recent_values' = history'

\* C16: after reset(), regardless of prior history, get_bpm() and
\* get_beat_interval() are absent and is_stale() is true, and the next
\* update(x) returns exactly x: no sample received before the reset
\* contributes to a later mean.
C16_ResetForgets == [](C16_Fresh) /\ [][C16_Step]_vars

\* C16 witness: a reset discarded samples and the next update(220)
\* returned 220.
C16_Witness ==
    /\ op = "update"
    /\ dropped = 1
    /\ history = <<220>>
    /\ hr_ret = Some(220)

\* after a reset that discarded samples, get_beat_interval answered absent
C16_WitnessInterval ==
    /\ op = "get_beat_interval"
    /\ dropped = 1
    /\ history = <<>>
    /\ hr_ret = None

C17_Step ==
    \* reset() leaves the three fields as the constructor does
    /\ op' = "reset" =>
          (last_position' = None /\ last_rotation' = None
           /\ last_position_2d' = None)
    \* the call after a reset answers as the first call of a new tracker
    /\ (op = "reset" /\ Is3DCall(op')) =>
          IF ShoulderAbsent(in_frame')
          THEN ret_position' = None /\ ret_rotation' = None
          ELSE /\ ret_position' = Some(NewPosition(in_frame'))
               /\ ret_rotation' = Some(NewRotation(in_frame'))
    /\ (op = "reset" /\ Is2DCall(op')) =>
          IF ShoulderAbsent(in_frame')
          THEN ret_2d' = None
          ELSE ret_2d' =
                 Some(NewPosition2D(in_frame', in_size'[1], in_size'[2]))

\* C17: after reset() the tracker behaves like a freshly constructed one:
\* the three last-known fields are absent (the constructor's state, so every
\* later sequence of calls answers alike), the next successful track_chest
\* or get_chest_position_2d returns the raw unblended value, and a
\* missing-shoulder track_chest returns (None, None).
C17_ResetIsFresh == [][C17_Step]_vars

\* C17 witness: the call after a reset that discarded stored state returned
\* the raw position of its input.
C17_Witness ==
    /\ op = "track_chest"
    /\ cleared = 1
    /\ ~ShoulderAbsent(in_frame)
    /\ ret_position = Some(NewPosition(in_frame))
    /\ ret_rotation = Some(NewRotation(in_frame))

\* a missing-shoulder call after such a reset returned (None, None)
C17_WitnessMiss ==
    /\ op = "track_chest"
    /\ cleared = 1
    /\ ShoulderAbsent(in_frame)
    /\ ret_position = None
    /\ ret_rotation = None

(***************************************************************************)
(* Further claims about AnimationController (checked under SpecAnim)       *)
(***************************************************************************)
\* nothing set: the state after construction and after reset()
Quiet ==
    /\ target_bpm = None
    /\ ac_current_bpm = None
    /\ heartbeat_pulse_start = None

C18_Step ==
    \* no active pulse and, at the test "current_bpm is None or <= 0", no
    \* positive current BPM: the query returns 1.0 from that test, before
    \* "60.0 / self.current_bpm"
    /\ ( /\ op' = "get_beat_scale"
         /\ ~( /\ heartbeat_pulse_start # None
               /\ (q_time' - Val(heartbeat_pulse_start)) < pulse_duration )
         /\ (ac_current_bpm' = None \/ Val(ac_current_bpm') <= 0) )
       => /\ scale_ret' = Some(1000)
          /\ beat_scale' = 1000
          /\ q_mode' = "neutral"
    \* with no target set, the test sees the current BPM as it was
    /\ ( /\ op' = "get_beat_scale"
         /\ q_mode' # "event"
         /\ target_bpm = None
         /\ (ac_current_bpm = None \/ Val(ac_current_bpm) <= 0) )
       => scale_ret' = Some(1000)
    \* reset() restores the constructed state, whatever came before
    /\ op' = "reset" => Quiet'
    \* which lasts until update_bpm or trigger_heartbeat is called, and in
    \* which every query returns 1.0
    /\ (Quiet /\ op' \notin {"update_bpm", "trigger_heartbeat"}) => Quiet'
    /\ (Quiet /\ op' = "get_beat_scale") =>
          (scale_ret' = Some(1000) /\ q_mode' = "neutral")

\* C18: whenever no event pulse is active and current BPM is absent or
\* <= 0, get_beat_scale returns exactly 1.0 from the test that precedes the
\* division by the BPM; in particular every query after construction or
\* after reset() returns 1.0 until update_bpm or trigger_heartbeat is
\* called again.
C18_NeutralWithoutBpm == [][C18_Step]_vars

\* C18 witness: a query with current BPM 0 (target 0) and no active pulse
\* returned 1.0.
C18_Witness ==
    /\ op = "get_beat_scale"
    /\ q_mode = "neutral"
    /\ ac_current_bpm = Some(0)
    /\ scale_ret = Some(1000)

\* a query after a reset made at a later time, following earlier queries,
\* returned 1.0
C18_WitnessAfterReset ==
    /\ op = "get_beat_scale"
    /\ start_time > 0
    /\ queries >= 2
    /\ Quiet
    /\ scale_ret = Some(1000)

\* C19: after every trigger_heartbeat() call the last-event timestamp and
\* the pulse-start timestamp hold the same instant, for any behaviour of
\* the clock between the statements of the call.
C19_SameInstant ==
    op = "trigger_heartbeat" =>
        (/\ last_heartbeat_time # None
         /\ last_heartbeat_time = heartbeat_pulse_start)

\* what the two clock reads do guarantee: both are set, in order
C19_Ordered ==
    op = "trigger_heartbeat" =>
        (/\ last_heartbeat_time # None
         /\ heartbeat_pulse_start # None
         /\ Val(last_heartbeat_time) <= Val(heartbeat_pulse_start)
         /\ Val(heartbeat_pulse_start) = now)

Settled ==
    \/ target_bpm = None
    \/ (ac_current_bpm # None
        /\ Val(ac_current_bpm) = Val(target_bpm) * BpmUnit)

C20_Step ==
    (op = "get_beat_scale" /\ op' = "get_beat_scale" /\ q_time' = q_time) =>
        /\ q_mode' = "event" <=> q_mode = "event"
        /\ (q_mode' = "event" \/ Settled) => scale_ret' = scale_ret
        /\ (q_mode' # "event" /\ ~Settled) =>
              ac_current_bpm' # ac_current_bpm \/
              Abs(Val(target_bpm) * BpmUnit - Val(ac_current_bpm)) < 10

C20_WitnessEvent ==
    /\ op = "get_beat_scale"
    /\ prev_ret # None
    /\ q_mode = "event"
    /\ scale_ret = prev_ret
    /\ scale_ret # Some(1000)

C21_Step ==
    (target_bpm = None /\ op' = "get_beat_scale" /\ q_mode' # "event") =>
        scale_ret' = Some(1000)

C21_AmendedStep ==
    (target_bpm = None /\ op' = "get_beat_scale" /\ q_mode' # "event") =>
        /\ ac_current_bpm' = ac_current_bpm
        /\ IF ac_current_bpm = None \/ Val(ac_current_bpm) <= 0
           THEN q_mode' = "neutral" /\ scale_ret' = Some(1000)
           ELSE /\ q_mode' = "periodic"
                /\ scale_ret' =
                     Some(1000 + PeriodicPulse(q_time' - start_time,
                                               Val(ac_current_bpm)))

HasBlockStructure(m, p, r, s) ==
    /\ Len(m) = 4
    /\ \A i \in 1..3 :
        /\ Len(m[i]) = 4
        /\ m[i][4] = p[i]
        /\ \A j \in 1..3 : Abs(1000 * m[i][j] - r[i][j] * s) < 1000
    /\ m[4] = <<0, 0, 0, 1000>>

\* C22: create_transform_matrix returns the 4x4 matrix with rotation * scale
\* in the upper-left 3x3 block, the position in the last column and bottom
\* row (0, 0, 0, 1), leaving its arguments as they were; get_transform_matrix
\* returns that matrix for track_chest's result with scale HEART_SCALE, and
\* nothing exactly when track_chest returned no position or no rotation.
C22_TransformMatrix ==
    (op = "get_transform_matrix") =>
        /\ (ret_matrix = None) <=> (ret_position = None \/ ret_rotation = None)
        /\ ret_matrix # None =>
            /\ HasBlockStructure(Val(ret_matrix), Val(ret_position),
                                 Val(ret_rotation), HEART_SCALE)
            /\ last_position = ret_position
            /\ last_rotation = ret_rotation

\* C22 witness: get_transform_matrix returned a matrix for a rotation that
\* is not the identity.
C22_Witness ==
    /\ op = "get_transform_matrix"
    /\ ret_matrix # None
    /\ ret_rotation # None
    /\ Val(ret_rotation) # Identity3
    /\ Val(ret_rotation) # Zero3

\* C22 witness: get_transform_matrix returned nothing because track_chest
\* had nothing to return.
C22_WitnessAbsent ==
    /\ op = "get_transform_matrix"
    /\ ret_matrix = None
    /\ ret_position = None

\* one smoothing step from prev to new towards goal (all in 1/100 bpm):
\* new = prev + 0.1 * (goal - prev) up to fixed-point rounding, on the
\* goal's side of prev and not past the goal
SmoothingStepOf(new, prev, goal) ==
    /\ Abs(1000 * (new - prev) - ANIMATION_SMOOTHING * (goal - prev)) < 1000
    /\ IF goal >= prev THEN prev <= new /\ new <= goal
                       ELSE goal <= new /\ new <= prev
    /\ Abs(goal - prev) >= BpmUnit => Abs(goal - new) < Abs(goal - prev)
    /\ Abs(goal - prev) >= BpmUnit => new # goal

C23_Step ==
    /\ (op' = "get_beat_scale" /\ q_mode' # "event" /\ target_bpm # None) =>
          IF ac_current_bpm = None
          THEN ac_current_bpm' = Some(Val(target_bpm) * BpmUnit)
          ELSE /\ ac_current_bpm' # None
               /\ SmoothingStepOf(Val(ac_current_bpm'), Val(ac_current_bpm),
                                  Val(target_bpm) * BpmUnit)
    /\ (op' = "get_beat_scale" /\ q_mode' = "event") =>
          ac_current_bpm' = ac_current_bpm
    /\ (op' \notin {"get_beat_scale", "reset"}) =>
          ac_current_bpm' = ac_current_bpm

\* C23: in periodic mode with a target BPM set, the first query with current
\* BPM absent sets current BPM to the target exactly, and each later query
\* moves current BPM by 0.1 * (target - current), monotonically towards the
\* target without overshooting; one step is taken per such query and none
\* by the passage of time or by any other operation.
C23_ExponentialSmoothing == [][C23_Step]_vars

\* C23 witness: two smoothing steps from 0 towards a target of 200 bpm
\* (0 -> 20 -> 38 bpm) have been taken by two periodic-mode queries.
C23_Witness ==
    /\ op = "get_beat_scale"
    /\ q_mode = "periodic"
    /\ target_bpm = Some(200)
    /\ ac_current_bpm = Some(38 * BpmUnit)
    /\ queries = 3

\* C23 witness: the first query with current BPM absent took the target.
C23_WitnessFirst ==
    /\ op = "get_beat_scale"
    /\ q_mode = "periodic"
    /\ queries = 1
    /\ target_bpm = Some(200)
    /\ ac_current_bpm = Some(200 * BpmUnit)

C24_Step ==
    (/\ Is2DCall(op')
     /\ last_position_2d = None
     /\ ~ShoulderAbsent(in_frame')
     /\ ~HipPairAbsent(in_frame')) =>
        LET left  == in_frame'.landmark[LEFT_SHOULDER].p
            right == in_frame'.landmark[RIGHT_SHOULDER].p
            lhip  == in_frame'.landmark[LEFT_HIP].p
            rhip  == in_frame'.landmark[RIGHT_HIP].p
            frame_height == in_size'[2]
            \* twice the pixel y of the shoulder midpoint and of the hip
            \* midpoint, in 1/1000 px
            shoulder_y2 == (left[2] + right[2]) * frame_height
            hip_y2      == (lhip[2] + rhip[2]) * frame_height
            new == Val(ret_2d')
        IN  /\ ret_2d' # None
            /\ 2 * new[2] >= shoulder_y2 - 2
            /\ Abs(8 * new[2] - (4 * shoulder_y2 + Abs(hip_y2 - shoulder_y2)))
                   <= 8

\* C24: with both hips and both shoulders visible, get_chest_position_2d
\* shifts the anchor downward by 25% of the shoulder-to-hip pixel distance,
\* so its y is never smaller than the shoulder-midpoint pixel y, wherever
\* the hips lie relative to the shoulders.
C24_ShiftedDownByTorso == [][C24_Step]_vars

\* the y the code computes: shoulder y plus 25% of the signed difference
\* hip y - shoulder y
C24_SignedStep ==
    (/\ Is2DCall(op')
     /\ last_position_2d = None
     /\ ~ShoulderAbsent(in_frame')
     /\ ~HipPairAbsent(in_frame')) =>
        LET left  == in_frame'.landmark[LEFT_SHOULDER].p
            right == in_frame'.landmark[RIGHT_SHOULDER].p
            lhip  == in_frame'.landmark[LEFT_HIP].p
            rhip  == in_frame'.landmark[RIGHT_HIP].p
            frame_height == in_size'[2]
            shoulder_y2 == (left[2] + right[2]) * frame_height
            hip_y2      == (lhip[2] + rhip[2]) * frame_height
            new == Val(ret_2d')
        IN  /\ ret_2d' # None
            /\ Abs(8 * new[2] - (4 * shoulder_y2 + (hip_y2 - shoulder_y2)))
                   <= 8

\* what the code does in the hips branch: the shift is 25% of the signed
\* difference hip y - shoulder y, upward when the hips are above the
\* shoulders
C24_ShiftedTowardsHips == [][C24_SignedStep]_vars

\* the upside-down body on a 1000x1000 frame: the anchor is returned at
\* y = 250, above the shoulder line at y = 300
C24_WitnessAbove ==
    /\ op = "get_chest_position_2d"
    /\ in_size = <<1000, 1000>>
    /\ ~ShoulderAbsent(in_frame)
    /\ ~HipPairAbsent(in_frame)
    /\ in_frame.landmark[LEFT_HIP].p[2] = 100
    /\ in_frame.landmark[RIGHT_HIP].p[2] = 100
    /\ ret_2d = Some(<<530000, 250000>>)

\* the shoulder vector right shoulder - left shoulder has zero length
ZeroShoulderVector(f) ==
    /\ ~ShoulderAbsent(f)
    /\ f.landmark[LEFT_SHOULDER].p = f.landmark[RIGHT_SHOULDER].p

C25_Step ==
    /\ (/\ Is3DCall(op')
        /\ last_rotation = None
        /\ ZeroShoulderVector(in_frame')) =>
            ret_rotation' = Some(Identity3)
    /\ (/\ Is3DCall(op')
        /\ last_rotation = None
        /\ ~ShoulderAbsent(in_frame')
        /\ ret_rotation' # None
        /\ ~IsProperRotation(Val(ret_rotation'))) =>
            ret_rotation' = Some(Identity3)

\* C25: whenever the shoulder vector has zero length, the orientation
\* track_chest newly computes is the identity rotation, whether or not hip
\* landmarks are present; no zero-length or singular basis yields a zero or
\* non-rotation matrix. (Calls without a prior rotation return the newly
\* computed orientation as it is.)
C25_DegenerateGivesIdentity == [][C25_Step]_vars

C25_NoHipsStep ==
    (/\ Is3DCall(op')
     /\ last_rotation = None
     /\ ~ShoulderAbsent(in_frame')
     /\ HipPairAbsent(in_frame')) =>
        ret_rotation' = Some(Identity3)

\* what the code does guarantee: without a usable hip pair the newly
\* computed orientation is the identity, for a zero-length shoulder vector
\* and for any other
C25_IdentityWithoutHips == [][C25_NoHipsStep]_vars

\* a zero-length shoulder vector with hips present: the orientation is
\* taken from the hip line alone and is not the identity
C25_WitnessFromHips ==
    /\ Is3DCall(op)
    /\ ZeroShoulderVector(in_frame)
    /\ ~HipPairAbsent(in_frame)
    /\ frames = 1
    /\ ret_rotation # None
    /\ ret_rotation # Some(Identity3)
    /\ IsProperRotation(Val(ret_rotation))

\* a zero-length shoulder vector and a zero-length hip vector: the zero
\* matrix is returned
C25_WitnessZero ==
    /\ Is3DCall(op)
    /\ ZeroShoulderVector(in_frame)
    /\ ~HipPairAbsent(in_frame)
    /\ frames = 1
    /\ ret_rotation = Some(Zero3)

\* the pre-smoothing 2D anchor of a frame with both shoulders present, from
\* the logged input: twice its x and eight times its y in 1/1000 px
\* (hips branch) or twice its y (fallback branch) are computed exactly
C26_Anchor(f, size) ==
    LET left  == f.landmark[LEFT_SHOULDER].p
        right == f.landmark[RIGHT_SHOULDER].p
        shoulder_width_px == Abs(right[1] - left[1]) * size[1]
        shoulder_y2 == (left[2] + right[2]) * size[2]
        x == ((left[1] + right[1]) * size[1]) \div 2
                 + (150 * shoulder_width_px) \div 1000
        y == IF HipPairAbsent(f)
             THEN shoulder_y2 \div 2 + (300 * shoulder_width_px) \div 1000
             ELSE LET hip_y2 == (f.landmark[LEFT_HIP].p[2]
                                   + f.landmark[RIGHT_HIP].p[2]) * size[2]
                  IN  IntDiv(4 * shoulder_y2 + (hip_y2 - shoulder_y2), 8)
    IN  <<x, y>>

C26_Step ==
    /\ (Is2DCall(op') /\ ShoulderAbsent(in_frame')) =>
          /\ ret_2d' = None
          /\ last_position_2d' = last_position_2d
    /\ (Is2DCall(op') /\ ~ShoulderAbsent(in_frame')
          /\ last_position_2d # None) =>
          LET anchor == C26_Anchor(in_frame', in_size')
              stored == Val(last_position_2d)
              new    == Val(ret_2d')
          IN  /\ ret_2d' # None
              /\ last_position_2d' = ret_2d'
              /\ \A i \in 1..2 :
                   Abs(10 * new[i] - (3 * anchor[i] + 7 * stored[i])) <= 20

\* C26: get_chest_position_2d returns nothing when either shoulder is
\* absent, even with a stored 2D position, and leaves last_position_2d as it
\* was; the next successful call blends its new position with that stored
\* position, new = 0.3 * anchor + 0.7 * stored.
C26_GapKeepsStored2D == [][C26_Step]_vars

\* C26 witness: a 2D call with a shoulder missing returned nothing while a
\* 2D position from an earlier call stays stored (no 3D call was made).
C26_Witness ==
    /\ Is2DCall(op)
    /\ ShoulderAbsent(in_frame)
    /\ ret_2d = None
    /\ last_position_2d # None
    /\ last_position = None
    /\ frames >= 2

\* C26 witness: a successful 2D call blended with a stored position: after
\* the fallback anchor (530, 360) the upside-down anchor (530, 250) gives
\* y = 0.3 * 250 + 0.7 * 360 = 327.
C26_WitnessBlend ==
    /\ op = "get_chest_position_2d"
    /\ in_size = <<1000, 1000>>
    /\ ret_2d = Some(<<530000, 327000>>)
    /\ last_position_2d = ret_2d

C27_Step ==
    /\ (op' = "get_beat_scale" /\ q_mode' = "event") =>
          /\ UNCHANGED <<ac_current_bpm, target_bpm, start_time,
                         last_heartbeat_time, heartbeat_pulse_start>>
          /\ scale_ret' = Some(beat_scale')
    /\ (op' \in {"trigger_heartbeat", "update_bpm"}) =>
          ac_current_bpm' = ac_current_bpm

\* C27: a get_beat_scale query answered in event-pulse mode leaves
\* current_bpm, target_bpm, start_time and both event timestamps unchanged
\* and writes only beat_scale; neither a beat nor a new target moves
\* current_bpm, so with beats arriving less than pulse_duration apart
\* current_bpm keeps its previous value (absent if it was never set).
C27_EventQueryFreezesFilter == [][C27_Step]_vars

\* C27 witness: a target of 200 bpm is set and the clock is past one
\* pulse_duration, yet the third query is still answered by an event pulse
\* and current BPM is still absent.
C27_Witness ==
    /\ op = "get_beat_scale"
    /\ q_mode = "event"
    /\ queries = 3
    /\ target_bpm = Some(200)
    /\ ac_current_bpm = None
    /\ now > pulse_duration
    /\ scale_ret # Some(1000)

C28_Step ==
    /\ Is3DCall(op') =>
          /\ last_position_2d' = last_position_2d
          /\ ret_2d' = None
          /\ \E r \in {track_chest(last_position, last_rotation, in_frame')} :
                 /\ ret_position' = r.position
                 /\ ret_rotation' = r.rotation
                 /\ last_position' = r.last_position
                 /\ last_rotation' = r.last_rotation
    /\ Is2DCall(op') =>
          /\ last_position' = last_position
          /\ last_rotation' = last_rotation
          /\ ret_position' = None
          /\ ret_rotation' = None
          /\ \E r \in {get_chest_position_2d(last_position_2d, in_frame',
                                              in_size'[1], in_size'[2])} :
                 /\ ret_2d' = r.ret
                 /\ last_position_2d' = r.last_position_2d

\* C28: the 3D and 2D tracking paths do not interfere: a 3D call leaves
\* last_position_2d as it was and its outputs are determined by
\* last_position, last_rotation and its landmarks alone; a 2D call leaves
\* last_position and last_rotation as they were and its outputs are
\* determined by last_position_2d, its landmarks and the frame size alone.
\* Each path therefore yields in any interleaving what its calls yield alone.
C28_PathsIndependent == [][C28_Step]_vars

\* C28 witness: a third call, on the 3D path, with state held by both
\* paths: the 2D position stored by an earlier 2D call is still there and
\* the 3D call returned its own stored state.
C28_Witness ==
    /\ op = "track_chest"
    /\ frames = 3
    /\ last_position_2d # None
    /\ last_position # None
    /\ ret_position = last_position
    /\ cleared = 0

\* C28 witness: the same on the 2D path.
C28_Witness2D ==
    /\ op = "get_chest_position_2d"
    /\ frames = 3
    /\ last_position # None
    /\ last_rotation # None
    /\ ret_2d # None
    /\ ret_2d = last_position_2d

\* C29: every value returned by get_beat_scale lies in [1 - 0.5 * A, 1 + A]
\* with A = HEART_BEAT_SCALE_AMPLITUDE, and every value returned in
\* event-pulse mode lies in [1, 1 + A], for every query time and reachable
\* state, a current_time earlier than the pulse-start timestamp included.
C29_ScaleInRange ==
    (op = "get_beat_scale") =>
        /\ scale_ret # None
        /\ 2 * Val(scale_ret) >= 2 * 1000 - HEART_BEAT_SCALE_AMPLITUDE
        /\ Val(scale_ret) <= 1000 + HEART_BEAT_SCALE_AMPLITUDE
        /\ q_mode = "event" =>
              /\ Val(scale_ret) >= 1000
              /\ Val(scale_ret) <= 1000 + HEART_BEAT_SCALE_AMPLITUDE

\* what the code does guarantee: the two ranges hold for every query whose
\* current_time is not earlier than the pulse-start timestamp
C29_ScaleInRangeForward ==
    (/\ op = "get_beat_scale"
     /\ ~(/\ q_mode = "event"
          /\ q_time < Val(heartbeat_pulse_start))) =>
        /\ scale_ret # None
        /\ 2 * Val(scale_ret) >= 2 * 1000 - HEART_BEAT_SCALE_AMPLITUDE
        /\ Val(scale_ret) <= 1000 + HEART_BEAT_SCALE_AMPLITUDE
        /\ q_mode = "event" => Val(scale_ret) >= 1000

\* a query 0.03 s before the pulse-start timestamp is answered in event
\* mode with 1 + A * sin(-pi / 3), about 0.74
C29_WitnessBelow ==
    /\ op = "get_beat_scale"
    /\ q_mode = "event"
    /\ heartbeat_pulse_start # None
    /\ q_time < Val(heartbeat_pulse_start)
    /\ 2 * Val(scale_ret) < 2 * 1000 - HEART_BEAT_SCALE_AMPLITUDE

\* the parser is stale at the clock reading: no sample yet, or the last one
\* more than 5 seconds ago
C30_Stale(lut, t) == lut = None \/ t - Val(lut) > 5 * TicksPerSecond

C30_Step ==
    (op' = "update_frame") =>
        IF C30_Stale(last_update_time, now)
        THEN /\ shown_scale' = Some(1000)
             /\ calls' = <<"is_stale">>
             /\ queries' = queries
             /\ UNCHANGED acVars
        ELSE /\ calls' = <<"is_stale", "get_beat_scale">>
             /\ queries' = queries + 1
             /\ scale_ret' # None
             /\ shown_scale' = scale_ret'
             /\ Val(shown_scale') = beat_scale'
             /\ Val(shown_scale') =
                  IF /\ heartbeat_pulse_start # None
                     /\ now - Val(heartbeat_pulse_start) < pulse_duration
                  THEN 1000 + EventPulse(now - Val(heartbeat_pulse_start))
                  ELSE FallbackScale(ac_current_bpm', now - start_time)

\* C30: on every update_frame that reaches the animation step, if the
\* parser is stale the overlay is handed exactly 1.0 and get_beat_scale is
\* not called, so the AnimationController state is unchanged by that tick
\* even with a pulse pending; if the parser is not stale the value handed
\* over is the result of exactly one get_beat_scale call.
C30_StaleFrameIsNeutral == [][C30_Step]_vars

\* C30 witness: a stale tick with a pulse still pending: the overlay got 1.0
\* and the pulse-start timestamp is still recorded.
C30_Witness ==
    /\ op = "update_frame"
    /\ stale_ret
    /\ last_update_time # None
    /\ heartbeat_pulse_start # None
    /\ target_bpm # None
    /\ shown_scale = Some(1000)
    /\ calls = <<"is_stale">>

\* C30 witness: a tick with a fresh sample handed over a pulse value.
C30_WitnessFresh ==
    /\ op = "update_frame"
    /\ ~stale_ret
    /\ calls = <<"is_stale", "get_beat_scale">>
    /\ shown_scale = scale_ret
    /\ shown_scale # Some(1000)

====
